---- MODULE Spec2Model ----
(***************************************************************************)
(* Model of the OpenObserve query compiler and trace reconstruction of     *)
(* openchoreo/community-modules: the escaping primitives and query         *)
(* builders of the logs module (queries.go), the query builders of the     *)
(* tracing module (queries.go), the grouping pass of Client.GetTraces and  *)
(* the clients' exchange with the backend and the request handlers of     *)
(* both modules.                                                           *)
(*                                                                         *)
(* Strings are sequences of characters.  A query text is a sequence of     *)
(* chunks: a chunk is one character of a caller-supplied value, one of the *)
(* characters ' " \ %, or a static fragment of the source that holds none  *)
(* of these characters and is kept whole.                                  *)
(***************************************************************************)
EXTENDS Integers, Sequences, FiniteSets, TLC

VARIABLES op, arg, ret

vars == <<op, arg, ret>>

\* ------------------------------------------------------------------------
\* Characters and bounded string sets
\* ------------------------------------------------------------------------
SQ == "'"
BS == "\\"
DQ == "\""
PCT == "%"
SP == " "

\* Longest string handed to the escaping primitives.
MaxLen == 4
\* Longest hostile value placed into a request field.
MaxValLen == 1
\* Longest list of log levels in a request.
MaxLevels == 2

Alphabet == {"a", SQ, BS}

SeqsUpTo(n, S) == UNION {[1..k -> S] : k \in 0..n}

StringsUpTo(n, alpha) == SeqsUpTo(n, alpha)

RECURSIVE Concat(_)
Concat(ss) == IF ss = <<>> THEN <<>> ELSE Head(ss) \o Concat(Tail(ss))

\* strings.Join(parts, sep)
RECURSIVE Join(_, _)
Join(parts, sep) ==
    IF parts = <<>> THEN <<>>
    ELSE IF Len(parts) = 1 THEN parts[1]
    ELSE parts[1] \o sep \o Join(Tail(parts), sep)

\* strings.ReplaceAll(s, old, new) for a one-character old
RECURSIVE ReplaceAll(_, _, _)
ReplaceAll(s, old, new) ==
    IF s = <<>> THEN <<>>
    ELSE (IF Head(s) = old THEN new ELSE <<Head(s)>>) \o ReplaceAll(Tail(s), old, new)

\* ------------------------------------------------------------------------
\* Escaping primitives (logs queries.go)
\* ------------------------------------------------------------------------
quoteIdentifier(identifier) == <<DQ>> \o ReplaceAll(identifier, DQ, <<DQ, DQ>>) \o <<DQ>>

escapeQuotesOnly(value) == ReplaceAll(value, SQ, <<SQ, SQ>>)

escapeSQLString(value) ==
    ReplaceAll(ReplaceAll(value, BS, <<BS, BS>>), SQ, <<SQ, SQ>>)

\* The example of the specification: a'b\c
ExampleLiteral == <<"a", SQ, "b", BS, "c">>

EscapeInputs == StringsUpTo(MaxLen, Alphabet) \cup {ExampleLiteral}

\* ------------------------------------------------------------------------
\* Query builders of the logs module (queries.go)
\* ------------------------------------------------------------------------
\* A Go pointer: nil, or a pointer to x.
Nil == <<>>
Ptr(x) == <<x>>

Ok(doc) == [ok |-> TRUE, doc |-> doc]
Failed(kind, msg) == [ok |-> FALSE, kind |-> kind, error |-> msg]

Cond(b, c) == IF b THEN <<c>> ELSE <<>>

\* "<column> = '" + escapeSQLString(value) + "'"
EqualsCondition(column, value) ==
    <<column, " = ", SQ>> \o escapeSQLString(value) \o <<SQ>>

\* "(" + strings.Join(<one equality per value>, " OR ") + ")"
OrGroup(column, values) ==
    <<"(">> \o Join([i \in 1..Len(values) |-> EqualsCondition(column, values[i])],
                    <<" OR ">>) \o <<")">>

SearchPhraseConditionRaw(phrase) ==
    <<"log LIKE ", SQ, PCT>> \o phrase \o <<PCT, SQ>>

\* "log LIKE '%" + escapeSQLString(params.SearchPhrase) + "%'"
SearchPhraseCondition(phrase) ==
    <<"log LIKE ", SQ, PCT>> \o escapeSQLString(phrase) \o <<PCT, SQ>>

AscLower == <<"a", "s", "c">>
AscUpper == <<"A", "S", "C">>

\* if params.SortOrder == "ASC" || params.SortOrder == "asc" { ... } else { ... }
LogsOrderClause(sortOrder) ==
    IF sortOrder = AscUpper \/ sortOrder = AscLower
    THEN <<" ORDER BY _timestamp ASC">>
    ELSE <<" ORDER BY _timestamp DESC">>

DefaultLimitValue == 100

DefaultLimitNegativeOnly(limit) == IF limit < 0 THEN DefaultLimitValue ELSE limit

\* limit := params.Limit; if limit <= 0 { limit = 100 }
DefaultLimit(limit) == IF limit <= 0 THEN DefaultLimitValue ELSE limit

\* A variant that writes the keyword also in front of no condition.
WhereClauseAlways(conditions) == <<" WHERE ">> \o Join(conditions, <<" AND ">>)

\* if len(conditions) > 0 { sql += " WHERE " + strings.Join(conditions, " AND ") }
WhereClause(conditions) ==
    IF Len(conditions) > 0 THEN <<" WHERE ">> \o Join(conditions, <<" AND ">>) ELSE <<>>

\* A variant whose default case accepts the operator as an equality test.
mapOperatorDefaultEq(o) ==
    CASE o = "gt" -> Ok(">")
      [] o = "gte" -> Ok(">=")
      [] o = "lt" -> Ok("<")
      [] o = "lte" -> Ok("<=")
      [] o = "neq" -> Ok("!=")
      [] OTHER -> Ok("=")

\* switch op { case "gt": return ">", nil ... default: return "", fmt.Errorf(...) }
mapOperator(o) ==
    CASE o = "gt" -> Ok(">")
      [] o = "gte" -> Ok(">=")
      [] o = "lt" -> Ok("<")
      [] o = "lte" -> Ok("<=")
      [] o = "eq" -> Ok("=")
      [] o = "neq" -> Ok("!=")
      [] OTHER -> Failed("validation", "unsupported operator")

\* A variant that restricts the count to the namespace of the rule.
generateAlertConfigScoped(params, streamName) ==
    LET query == <<"SELECT count(*) as ", "match_count", " FROM ">>
                   \o quoteIdentifier(streamName)
                   \o <<" WHERE str_match(log, ", SQ>>
                   \o escapeSQLString(params.SearchPattern) \o <<SQ, ")">>
                   \o (IF params.Namespace # <<>>
                       THEN <<" AND ">>
                            \o EqualsCondition("kubernetes_labels_openchoreo_dev_namespace",
                                               params.Namespace)
                       ELSE <<>>)
        sqlOperator == mapOperator(params.Operator)
        alertName == IF params.Name # Nil THEN params.Name[1] ELSE <<>>
    IN  IF ~sqlOperator.ok
        THEN Failed("validation", "invalid alert operator")
        ELSE Ok([name |-> alertName,
                 stream_name |-> streamName,
                 sql |-> query,
                 condition |-> [column |-> "match_count",
                                operator |-> sqlOperator.doc,
                                value |-> params.ThresholdValue],
                 duration |-> params.Window,
                 frequency |-> params.Interval,
                 is_realtime |-> "no",
                 destinations |-> <<"openchoreo_alerts">>,
                 alert_type |-> "scheduled"])

generateAlertConfig(params, streamName) ==
    LET query == <<"SELECT count(*) as ", "match_count", " FROM ">>
                   \o quoteIdentifier(streamName)
                   \o <<" WHERE str_match(log, ", SQ>>
                   \o escapeSQLString(params.SearchPattern) \o <<SQ, ")">>
        sqlOperator == mapOperator(params.Operator)
        alertName == IF params.Name # Nil THEN params.Name[1] ELSE <<>>
    IN  IF ~sqlOperator.ok
        THEN Failed("validation", "invalid alert operator")
        ELSE Ok([name |-> alertName,
                 stream_name |-> streamName,
                 sql |-> query,
                 condition |-> [column |-> "match_count",
                                operator |-> sqlOperator.doc,
                                value |-> params.ThresholdValue],
                 duration |-> params.Window,
                 frequency |-> params.Interval,
                 is_realtime |-> "no",
                 destinations |-> <<"openchoreo_alerts">>,
                 alert_type |-> "scheduled"])

generateWorkflowLogsQuery(params, stream) ==
    LET conditions ==
            Cond(params.Namespace # <<>>,
                 <<"kubernetes_namespace_name", " = ", SQ, "openchoreo-ci-">>
                   \o escapeSQLString(params.Namespace) \o <<SQ>>)
         \o Cond(params.WorkflowRunName # <<>>,
                 EqualsCondition("kubernetes_labels_workflows_argoproj_io_workflow",
                                 params.WorkflowRunName))
         \o Cond(params.SearchPhrase # <<>>, SearchPhraseCondition(params.SearchPhrase))
         \o Cond(Len(params.LogLevels) > 0, OrGroup("logLevel", params.LogLevels))
        sql == <<"SELECT * FROM ">> \o quoteIdentifier(stream)
                 \o WhereClause(conditions) \o LogsOrderClause(params.SortOrder)
    IN  Ok([sql |-> sql,
            start_time |-> params.StartTime,
            end_time |-> params.EndTime,
            from |-> 0,
            size |-> DefaultLimit(params.Limit),
            timeout |-> 0])

generateComponentLogsQuery(params, stream) ==
    IF params.Namespace = <<>>
    THEN Failed("validation", "namespace is required for component log queries")
    ELSE
    LET conditions ==
            <<EqualsCondition("kubernetes_labels_openchoreo_dev_namespace",
                              params.Namespace)>>
         \o Cond(params.ProjectID # <<>>,
                 EqualsCondition("kubernetes_labels_openchoreo_dev_project_uid",
                                 params.ProjectID))
         \o Cond(params.EnvironmentID # <<>>,
                 EqualsCondition("kubernetes_labels_openchoreo_dev_environment_uid",
                                 params.EnvironmentID))
         \o Cond(Len(params.ComponentIDs) > 0,
                 OrGroup("kubernetes_labels_openchoreo_dev_component_uid",
                         params.ComponentIDs))
         \o Cond(params.SearchPhrase # <<>>, SearchPhraseCondition(params.SearchPhrase))
         \o Cond(Len(params.LogLevels) > 0, OrGroup("logLevel", params.LogLevels))
        sql == <<"SELECT * FROM ">> \o quoteIdentifier(stream)
                 \o WhereClause(conditions) \o LogsOrderClause(params.SortOrder)
    IN  Ok([sql |-> sql,
            start_time |-> params.StartTime,
            end_time |-> params.EndTime,
            from |-> 0,
            size |-> DefaultLimit(params.Limit),
            timeout |-> 0])

\* ------------------------------------------------------------------------
\* Query builders of the tracing module (queries.go)
\* ------------------------------------------------------------------------
buildFilterConditions(params) ==
       Cond(params.Scope.Namespace # <<>>,
            EqualsCondition("service_openchoreo_dev_namespace", params.Scope.Namespace))
    \o Cond(params.Scope.ProjectID # <<>>,
            EqualsCondition("service_openchoreo_dev_project_uid", params.Scope.ProjectID))
    \o Cond(params.Scope.EnvironmentID # <<>>,
            EqualsCondition("service_openchoreo_dev_environment_uid",
                            params.Scope.EnvironmentID))
    \o Cond(params.Scope.ComponentID # <<>>,
            EqualsCondition("service_openchoreo_dev_component_uid",
                            params.Scope.ComponentID))

generateTracesListQuery(params, stream) ==
    LET sql == <<"SELECT trace_id, span_id, operation_name, span_kind, start_time, end_time, reference_parent_span_id FROM ">>
                 \o stream
                 \o WhereClause(buildFilterConditions(params))
                 \o <<" ORDER BY start_time">>
    IN  Ok([sql |-> sql,
            start_time |-> params.StartTime,
            end_time |-> params.EndTime,
            from |-> 0,
            size |-> -1])

\* if params.Sort == "asc" || params.Sort == "ASC" { ... } else { ... }
SpansOrderClause(sort) ==
    IF sort = AscLower \/ sort = AscUpper
    THEN <<" ORDER BY start_time ASC">>
    ELSE <<" ORDER BY start_time DESC">>

\* A variant that also applies the scope filter of the traces list.
generateSpansListQueryScoped(params, stream) ==
    LET conditions == <<EqualsCondition("trace_id", params.TraceID)>>
                        \o buildFilterConditions(params)
        sql == <<"SELECT span_id, operation_name, span_kind, start_time, end_time, end_time - start_time as duration, reference_parent_span_id FROM ">>
                 \o stream \o <<" WHERE ">> \o Join(conditions, <<" AND ">>)
                 \o SpansOrderClause(params.Sort)
    IN  Ok([sql |-> sql,
            start_time |-> params.StartTime,
            end_time |-> params.EndTime,
            from |-> 0,
            size |-> DefaultLimit(params.Limit),
            timeout |-> 0])

generateSpansListQuery(params, stream) ==
    LET conditions == <<EqualsCondition("trace_id", params.TraceID)>>
        sql == <<"SELECT span_id, operation_name, span_kind, start_time, end_time, end_time - start_time as duration, reference_parent_span_id FROM ">>
                 \o stream \o <<" WHERE ">> \o Join(conditions, <<" AND ">>)
                 \o SpansOrderClause(params.Sort)
    IN  Ok([sql |-> sql,
            start_time |-> params.StartTime,
            end_time |-> params.EndTime,
            from |-> 0,
            size |-> DefaultLimit(params.Limit),
            timeout |-> 0])

generateSpanDetailQuery(params, stream) ==
    LET conditions == <<EqualsCondition("trace_id", params.TraceID),
                        EqualsCondition("span_id", params.SpanID)>>
        sql == <<"SELECT * FROM ">> \o stream \o <<" WHERE ">>
                 \o Join(conditions, <<" AND ">>)
    IN  Ok([sql |-> sql,
            start_time |-> 1,
            end_time |-> "math.MaxInt64 / 2",
            from |-> 0,
            size |-> 1,
            timeout |-> 0])

\* ------------------------------------------------------------------------
\* Trace reconstruction: the grouping pass of Client.GetTraces (tracing client.go)
\* ------------------------------------------------------------------------
\* A decoded JSON value of a hit: a string, a number (json.Number) or absent.
Str(x) == [t |-> "string", s |-> x, n |-> 0]
Num(k) == [t |-> "number", s |-> "", n |-> k]
Absent == [t |-> "absent", s |-> "", n |-> 0]

\* x, _ := hit[key].(string)
AsString(v) == IF v.t = "string" THEN v.s ELSE ""
IsString(v) == v.t = "string"
IsNumber(v) == v.t = "number"

NewAgg(traceID) ==
    [TraceID |-> traceID, SpanCount |-> 0,
     RootSpanID |-> "", RootSpanName |-> "", RootSpanKind |-> "",
     minStart |-> 0, maxEnd |-> 0]

\* if v, ok := hit["start_time"].(json.Number); ok { ... }
\* if v, ok := hit["end_time"].(json.Number); ok { ... }
TimeStep(agg, hit) ==
    LET a1 == IF IsNumber(hit.start_time)
                 /\ (agg.minStart = 0 \/ hit.start_time.n < agg.minStart)
              THEN [agg EXCEPT !.minStart = hit.start_time.n] ELSE agg
    IN  IF IsNumber(hit.end_time) /\ hit.end_time.n > a1.maxEnd
        THEN [a1 EXCEPT !.maxEnd = hit.end_time.n] ELSE a1

SetRoot(agg, hit) ==
    LET a1 == IF IsString(hit.span_id)
              THEN [agg EXCEPT !.RootSpanID = hit.span_id.s] ELSE agg
        a2 == IF IsString(hit.operation_name)
              THEN [a1 EXCEPT !.RootSpanName = hit.operation_name.s] ELSE a1
    IN  IF IsString(hit.span_kind)
        THEN [a2 EXCEPT !.RootSpanKind = hit.span_kind.s] ELSE a2

RootStepFirstWins(agg, hit) ==
    IF AsString(hit.reference_parent_span_id) = "" /\ agg.RootSpanID = ""
    THEN SetRoot(agg, hit) ELSE agg

\* Identify root span: the span with no parent
RootStep(agg, hit) ==
    IF AsString(hit.reference_parent_span_id) = "" THEN SetRoot(agg, hit) ELSE agg

IndexOf(aggs, traceID) ==
    IF \E k \in 1..Len(aggs) : aggs[k].TraceID = traceID
    THEN CHOOSE k \in 1..Len(aggs) : aggs[k].TraceID = traceID
    ELSE 0

Absorb(aggs, hit, traceID) ==
    LET k == IndexOf(aggs, traceID)
        known == IF k = 0 THEN Append(aggs, NewAgg(traceID)) ELSE aggs
        at == IF k = 0 THEN Len(known) ELSE k
        counted == [known[at] EXCEPT !.SpanCount = @ + 1]
    IN  [known EXCEPT ![at] = RootStep(TimeStep(counted, hit), hit)]

GroupStepKeepsEmptyId(aggs, hit) == Absorb(aggs, hit, AsString(hit.trace_id))

\* One iteration of the loop over openObserveResp.Hits; aggs holds the
\* aggregates of traceMap in the order of traceOrder.
GroupStep(aggs, hit) ==
    LET traceID == AsString(hit.trace_id)
    IN  IF traceID = "" THEN aggs ELSE Absorb(aggs, hit, traceID)

RECURSIVE GroupHits(_, _)
GroupHits(aggs, hits) ==
    IF hits = <<>> THEN aggs ELSE GroupHits(GroupStep(aggs, Head(hits)), Tail(hits))

\* time.Unix(0, ns) is kept as its nanosecond count.
TraceEntry(agg) ==
    [TraceID |-> agg.TraceID,
     TraceName |-> agg.RootSpanName,
     SpanCount |-> agg.SpanCount,
     RootSpanID |-> agg.RootSpanID,
     RootSpanName |-> agg.RootSpanName,
     RootSpanKind |-> agg.RootSpanKind,
     StartTime |-> agg.minStart,
     EndTime |-> agg.maxEnd,
     DurationNs |-> agg.maxEnd - agg.minStart]

GroupTraces(hits, took) ==
    LET aggs == GroupHits(<<>>, hits)
        traces == [k \in 1..Len(aggs) |-> TraceEntry(aggs[k])]
    IN  [Traces |-> traces, Total |-> Len(traces), TookMs |-> took]

\* Largest number of span rows in a backend response.
MaxRows == 3

SpanName(span) == IF span = "A" THEN "opA" ELSE "opB"
SpanKind(span) == IF span = "A" THEN "SERVER" ELSE "CLIENT"

Row(traceID, span, parent, start, end) ==
    [trace_id |-> traceID, span_id |-> Str(span),
     operation_name |-> Str(SpanName(span)), span_kind |-> Str(SpanKind(span)),
     start_time |-> start, end_time |-> end,
     reference_parent_span_id |-> parent]

\* Rows that differ in their trace id (also empty, absent or a number).
GroupingRows ==
    {Row(tid, sp[1], Str(sp[2]), Num(1), Num(2)) :
       tid \in {Str("T1"), Str("T2"), Str(""), Absent, Num(7)},
       sp \in {<<"A", "">>, <<"B", "A">>}}

\* Rows that differ in their times (also absent).
TimedRows ==
    {Row(Str(tid), "A", Str(""), se[1], se[2]) :
       tid \in {"T1", "T2"},
       se \in {<<Num(0), Num(1)>>, <<Num(1), Num(2)>>, <<Num(2), Num(3)>>,
               <<Absent, Absent>>, <<Num(3), Absent>>}}

\* Rows that differ in their parent reference.
RootRows ==
    {Row(Str(tid), span, parent, Num(1), Num(2)) :
       tid \in {"T1", "T2"}, span \in {"A", "B"},
       parent \in {Str(""), Str("A"), Absent}}

\* Rows without a parent that lack a string span_id, operation_name or span_kind.
PartialRootRows ==
    {Row(Str("T1"), span, Str(""), Num(1), Num(2)) : span \in {"A", "B"}}
    \cup {[Row(Str("T1"), span, Str(""), Num(1), Num(2)) EXCEPT ![column] = value] :
            span \in {"A", "B"}, column \in {"span_id", "operation_name", "span_kind"},
            value \in {Absent, Num(4)}}

\* A response holds rows of one of the four kinds.
RowKinds == {GroupingRows, TimedRows, RootRows, PartialRootRows}

\* ------------------------------------------------------------------------
\* Requests: bounded input sets
\* ------------------------------------------------------------------------
Plain == <<"a">>

\* Values a caller may place into a request field.
Vals == StringsUpTo(MaxValLen, Alphabet)

\* A field is absent, benign, or holds the value v.
Field(v) == {<<>>, Plain, v}
Opt(v) == {<<>>, v}

Casings(w) == {[i \in 1..Len(w) |-> f[i]] :
                 f \in {g \in [1..Len(w) -> {"a","A","s","S","c","C","d","D","e","E"}] :
                          \A i \in 1..Len(w) : g[i] \in w[i]}}

Sorts == {<<>>, <<"b","o","g","u","s">>, <<"d","e","s","c">>, <<"D","E","S","C">>,
          <<"D","e","s","c">>}
         \cup Casings(<<{"a","A"}, {"s","S"}, {"c","C"}>>)

Limits == {-5, -1, 0, 1, 25, 100, 101}

\* Stream names of the configuration: a plain one and one holding a double quote.
Streams == {<<"default">>, <<"my", DQ, "stream">>}

\* Search phrases that hold the characters % and _.
LikePhrases == {<<PCT>>, <<"_">>, <<"a", PCT>>, <<"a", "_">>, <<"a", "a">>}

ComponentLogsInputs ==
    UNION {[Namespace : Field(v), ProjectID : Opt(v), EnvironmentID : Opt(v),
            ComponentIDs : {<<>>, <<v>>, <<Plain, v>>},
            SearchPhrase : Field(v), LogLevels : SeqsUpTo(MaxLevels, {Plain, v}),
            StartTime : {1}, EndTime : {2}, Limit : {0}, SortOrder : {<<>>}]
           : v \in Vals}
    \cup [Namespace : {<<>>, Plain}, ProjectID : {<<>>}, EnvironmentID : {<<>>},
          ComponentIDs : {<<>>}, SearchPhrase : {<<>>}, LogLevels : {<<>>},
          StartTime : {1}, EndTime : {2}, Limit : Limits, SortOrder : Sorts]
    \cup [Namespace : {Plain}, ProjectID : {<<>>}, EnvironmentID : {<<>>},
          ComponentIDs : {<<>>, <<Plain>>}, SearchPhrase : LikePhrases,
          LogLevels : {<<>>, <<Plain>>},
          StartTime : {1}, EndTime : {2}, Limit : {0}, SortOrder : {<<>>}]

WorkflowLogsInputs ==
    UNION {[Namespace : Field(v), WorkflowRunName : Field(v),
            SearchPhrase : Field(v), LogLevels : SeqsUpTo(MaxLevels, {Plain, v}),
            StartTime : {1}, EndTime : {2}, Limit : {0}, SortOrder : {<<>>}]
           : v \in Vals}
    \cup [Namespace : {Plain}, WorkflowRunName : {Plain},
          SearchPhrase : {<<>>}, LogLevels : {<<>>},
          StartTime : {1}, EndTime : {2}, Limit : Limits, SortOrder : Sorts]
    \cup [Namespace : {<<>>, Plain}, WorkflowRunName : {<<>>, Plain},
          SearchPhrase : LikePhrases, LogLevels : {<<>>, <<Plain>>},
          StartTime : {1}, EndTime : {2}, Limit : {0}, SortOrder : {<<>>}]

Scopes ==
    UNION {[Namespace : Field(v), ProjectID : Field(v), ComponentID : Field(v),
            EnvironmentID : Field(v)] : v \in Vals}

PlainScopes ==
    [Namespace : {<<>>, Plain}, ProjectID : {<<>>}, ComponentID : {<<>>, Plain},
     EnvironmentID : {<<>>}]

TracesListInputs ==
    [StartTime : {1}, EndTime : {2}, Limit : {0}, Sort : {<<>>}, Scope : Scopes,
     TraceID : {<<>>}, SpanID : {<<>>}]
    \cup [StartTime : {1}, EndTime : {2}, Limit : Limits, Sort : Sorts,
          Scope : PlainScopes, TraceID : {<<>>}, SpanID : {<<>>}]

SpansListInputs ==
    [StartTime : {1}, EndTime : {2}, Limit : {0, 25}, Sort : {<<>>, AscLower},
     Scope : PlainScopes, TraceID : Vals \cup {Plain}, SpanID : {<<>>}]
    \cup [StartTime : {1}, EndTime : {2}, Limit : Limits, Sort : Sorts,
          Scope : {[Namespace |-> Plain, ProjectID |-> <<>>, ComponentID |-> <<>>,
                    EnvironmentID |-> <<>>]},
          TraceID : {Plain}, SpanID : {<<>>}]

\* GetSpanDetailsForTrace passes only TraceID and SpanID; other callers of
\* the client may fill the scope.
SpanDetailInputs ==
    [StartTime : {0}, EndTime : {0}, Limit : {0}, Sort : {<<>>},
     Scope : PlainScopes,
     TraceID : Vals \cup {Plain}, SpanID : Vals \cup {Plain}]

Operators == {"gt", "gte", "lt", "lte", "eq", "neq", "between", "", "GT"}

AlertInputs ==
    [Name : {Nil, Ptr(<<"r">>)}, Namespace : {<<>>, Plain}, ProjectUID : {<<>>},
     EnvironmentUID : {<<>>}, ComponentUID : {<<>>, Plain},
     SearchPattern : Vals \cup {Plain}, Operator : Operators,
     ThresholdValue : {5}, Window : {"5m"}, Interval : {"1m"}]

\* HTTP statuses
BadRequest == 400
InternalServerError == 500
StatusOK == 200

\* ------------------------------------------------------------------------
\* The HTTP exchange with the backend
\* ------------------------------------------------------------------------
StatusCreated == 201
StatusNoContent == 204
StatusNotFound == 404

\* A request handed to httpClient.Do.
Request(method, url, payload) == [method |-> method, url |-> url, payload |-> payload]

\* A response body: its bytes, and what json.Unmarshal makes of them for the
\* type the caller decodes into (Nil when decoding fails).
Body(text, decoded) == [text |-> text, decoded |-> decoded]
NoBody == Body("", Nil)

\* What the backend does with one request: httpClient.Do fails, or a response
\* arrives whose body cannot be read, or a response arrives with its body.
TransportFailure == [kind |-> "transport", status |-> 0, body |-> NoBody]
Unreadable(status) == [kind |-> "unreadable", status |-> status, body |-> NoBody]
Http(status, body) == [kind |-> "http", status |-> status, body |-> body]

\* The outcome of a client call: the returned value or error (an error is
\* its message, outermost wrapper first) and the requests sent, in order.
Done(value, sent) == [ok |-> TRUE, value |-> value, err |-> <<>>, sent |-> sent]
Fail(err, sent) == [ok |-> FALSE, value |-> Nil, err |-> err, sent |-> sent]

\* fmt.Errorf(prefix + ": %w", err)
Errorf(prefix, err) == <<prefix>> \o err

\* fmt.Errorf("openobserve returned status %d: response body omitted", ...)
StatusErrorBodyOmitted(status) ==
    <<"openobserve returned status ", ToString(status), ": response body omitted">>

\* fmt.Errorf("openobserve returned status %d: %s", resp.StatusCode, string(body))
StatusError(status, body) ==
    <<"openobserve returned status ", ToString(status), ": ", body.text>>

\* A variant that sends the request a second time when the first try fails.
ReceivedRetrying(reply, accepted, sent) ==
    IF reply.kind = "http" /\ reply.status \in accepted
    THEN Done(reply.body, sent)
    ELSE Fail(<<"failed after retry">>, Append(sent, sent[Len(sent)]))

\* The steps every call of the logs client repeats after sending a request:
\* Do, io.ReadAll, the status check against the accepted statuses.
Received(reply, accepted, sent) ==
    CASE reply.kind = "transport" ->
             Fail(<<"failed to execute request: ", "transport error">>, sent)
      [] reply.kind = "unreadable" ->
             Fail(<<"failed to read response body: ", "read error">>, sent)
      [] OTHER ->
             IF reply.status \notin accepted
             THEN Fail(StatusError(reply.status, reply.body), sent)
             ELSE Done(reply.body, sent)

\* ------------------------------------------------------------------------
\* The logs client (logs client.go)
\* ------------------------------------------------------------------------
LogsSearchURL == <<"/api/{org}/_search">>
AlertsURL == <<"/api/v2/{org}/alerts">>
AlertURL(alertID) == <<"/api/v2/{org}/alerts/", alertID>>

\* hit[key] of a decoded hit; a hit is a function from its keys to values.
HitValue(hit, key) == IF key \in DOMAIN hit THEN hit[key] ELSE Absent

LogsExecuteSearchQuery(queryJSON, reply) ==
    LET got == Received(reply, {StatusOK}, <<Request("POST", LogsSearchURL, queryJSON)>>)
    IN  IF ~got.ok THEN got
        ELSE IF got.value.decoded = Nil
        THEN Fail(<<"failed to unmarshal response: ", "json error">>, got.sent)
        ELSE Done(got.value.decoded[1], got.sent)

\* if ts, ok := hit["_timestamp"].(float64); ok { timestamp = int64(ts) }
TimestampOf(hit) ==
    IF IsNumber(HitValue(hit, "_timestamp")) THEN HitValue(hit, "_timestamp").n ELSE 0

parseApplicationLogEntry(timestamp, source) ==
    [Timestamp |-> timestamp,
     Log |-> AsString(HitValue(source, "log")),
     LogLevel |-> AsString(HitValue(source, "logLevel")),
     ComponentUID |-> AsString(HitValue(source, "kubernetes_labels_openchoreo_dev_component_uid")),
     ComponentName |-> AsString(HitValue(source, "kubernetes_labels_openchoreo_dev_component_name")),
     EnvironmentUID |-> AsString(HitValue(source, "kubernetes_labels_openchoreo_dev_environment_uid")),
     EnvironmentName |-> AsString(HitValue(source, "kubernetes_labels_openchoreo_dev_environment_name")),
     ProjectUID |-> AsString(HitValue(source, "kubernetes_labels_openchoreo_dev_project_uid")),
     ProjectName |-> AsString(HitValue(source, "kubernetes_labels_openchoreo_dev_project_name")),
     Namespace |-> AsString(HitValue(source, "kubernetes_labels_openchoreo_dev_namespace")),
     PodName |-> AsString(HitValue(source, "kubernetes_pod_name")),
     PodNamespace |-> AsString(HitValue(source, "kubernetes_pod_namespace")),
     ContainerName |-> AsString(HitValue(source, "kubernetes_container_name"))]

parseWorkflowLogEntry(timestamp, source) ==
    [Timestamp |-> timestamp,
     Log |-> AsString(HitValue(source, "log")),
     Metadata |-> [k \in DOMAIN source \ {"log", "_timestamp"} |-> source[k]]]

GetComponentLogs(params, stream, reply) ==
    LET query == generateComponentLogsQuery(params, stream)
    IN  IF ~query.ok
        THEN Fail(Errorf("failed to marshal query: ", <<query.error>>), <<>>)
        ELSE LET resp == LogsExecuteSearchQuery(query.doc, reply)
             IN  IF ~resp.ok THEN resp
                 ELSE Done([Logs |-> [i \in 1..Len(resp.value.hits) |->
                                        parseApplicationLogEntry(
                                            TimestampOf(resp.value.hits[i]),
                                            resp.value.hits[i])],
                            TotalCount |-> resp.value.total,
                            Took |-> resp.value.took],
                           resp.sent)

GetWorkflowLogs(params, stream, reply) ==
    LET query == generateWorkflowLogsQuery(params, stream)
    IN  IF ~query.ok
        THEN Fail(Errorf("failed to marshal query: ", <<query.error>>), <<>>)
        ELSE LET resp == LogsExecuteSearchQuery(query.doc, reply)
             IN  IF ~resp.ok THEN resp
                 ELSE Done([Logs |-> [i \in 1..Len(resp.value.hits) |->
                                        parseWorkflowLogEntry(
                                            TimestampOf(resp.value.hits[i]),
                                            resp.value.hits[i])],
                            TotalCount |-> resp.value.total,
                            Took |-> resp.value.took],
                           resp.sent)

\* A request is sent only for a compiled document.
SentRegardless(compiled, request) == <<request>>
SentIfCompiled(compiled, request) == IF compiled.ok THEN <<request>> ELSE <<>>

CreateAlert(params, stream, reply) ==
    LET alertJSON == generateAlertConfig(params, stream)
        sent == SentIfCompiled(alertJSON,
                               Request("POST", AlertsURL,
                                       IF alertJSON.ok THEN alertJSON.doc ELSE Nil))
    IN  IF ~alertJSON.ok
        THEN Fail(Errorf("failed to generate alert config: ", <<alertJSON.error>>), sent)
        ELSE LET got == Received(reply, {StatusOK, StatusCreated}, sent)
             IN  IF ~got.ok THEN got
                 ELSE IF got.value.decoded # Nil /\ got.value.decoded[1].alert_id # ""
                 THEN Done(got.value.decoded[1].alert_id, got.sent)
                 ELSE Done("", got.sent)

\* for _, alert := range result.List { if alert.Name == name { return ... } }
RECURSIVE FindAlertLast(_, _)
FindAlertLast(list, name) ==
    IF list = <<>> THEN Nil
    ELSE IF list[Len(list)].name = name THEN Ptr(list[Len(list)].alert_id)
    ELSE FindAlertLast(SubSeq(list, 1, Len(list) - 1), name)

RECURSIVE FindAlert(_, _)
FindAlert(list, name) ==
    IF list = <<>> THEN Nil
    ELSE IF Head(list).name = name THEN Ptr(Head(list).alert_id)
    ELSE FindAlert(Tail(list), name)

AlertNotFound(name) == <<"alert ", name, " not found">>

\* A variant that falls back to the first listed alert when no name matches.
getAlertIDByNameOrFirst(name, reply) ==
    LET got == Received(reply, {StatusOK}, <<Request("GET", AlertsURL, Nil)>>)
    IN  IF ~got.ok THEN got
        ELSE IF got.value.decoded = Nil
        THEN Fail(<<"failed to unmarshal response: ", "json error">>, got.sent)
        ELSE LET found == FindAlert(got.value.decoded[1].list, name)
             IN  IF found # Nil THEN Done(found[1], got.sent)
                 ELSE IF got.value.decoded[1].list # <<>>
                 THEN Done(got.value.decoded[1].list[1].alert_id, got.sent)
                 ELSE Fail(AlertNotFound(name), got.sent)

getAlertIDByName(name, reply) ==
    LET got == Received(reply, {StatusOK}, <<Request("GET", AlertsURL, Nil)>>)
    IN  IF ~got.ok THEN got
        ELSE IF got.value.decoded = Nil
        THEN Fail(<<"failed to unmarshal response: ", "json error">>, got.sent)
        ELSE LET found == FindAlert(got.value.decoded[1].list, name)
             IN  IF found # Nil THEN Done(found[1], got.sent)
                 ELSE Fail(AlertNotFound(name), got.sent)

\* A variant that sends the DELETE whatever the lookup returned.
DeleteAfterLookupAlways(found) == TRUE
\* if err != nil { return "", fmt.Errorf("failed to find alert %q: %w", ...) }
DeleteAfterLookup(found) == found.ok

DeleteAlert(alertName, listReply, deleteReply) ==
    LET found == getAlertIDByName(alertName, listReply)
    IN  IF ~DeleteAfterLookup(found)
        THEN Fail(<<"failed to find alert ", alertName, ": ">> \o found.err, found.sent)
        ELSE LET alertID == IF found.ok THEN found.value ELSE ""
                 got == Received(deleteReply, {StatusOK, StatusNoContent},
                                 Append(found.sent,
                                        Request("DELETE", AlertURL(alertID), Nil)))
             IN  IF ~got.ok THEN got ELSE Done(alertID, got.sent)

\* ------------------------------------------------------------------------
\* The tracing client (tracing client.go)
\* ------------------------------------------------------------------------
TracesSearchURL == <<"/api/{org}/_search?type=traces">>

TracingExecuteSearchQuery(queryJSON, reply) ==
    LET sent == <<Request("POST", TracesSearchURL, queryJSON)>>
    IN  CASE reply.kind = "transport" ->
                 Fail(<<"failed to execute request: ", "transport error">>, sent)
          [] reply.kind = "unreadable" ->
                 Fail(<<"failed to read response body: ", "read error">>, sent)
          [] OTHER ->
                 IF reply.status # StatusOK
                 THEN Fail(StatusErrorBodyOmitted(reply.status), sent)
                 ELSE IF reply.body.decoded = Nil
                 THEN Fail(<<"failed to unmarshal response: ", "json error">>, sent)
                 ELSE Done(reply.body.decoded[1], sent)

GetTraces(params, stream, reply) ==
    LET query == generateTracesListQuery(params, stream)
    IN  IF ~query.ok
        THEN Fail(Errorf("failed to generate traces query: ", <<query.error>>), <<>>)
        ELSE LET resp == TracingExecuteSearchQuery(query.doc, reply)
             IN  IF ~resp.ok THEN resp
                 ELSE Done(GroupTraces(resp.value.hits, resp.value.took), resp.sent)

\* if v, ok := hit[key].(json.Number); ok { n, _ := v.Int64(); ... }
AsInt64(v) == IF v.t = "number" THEN v.n ELSE 0

\* A variant that reads the parent from the column parent_span_id.
parseSpanEntryOtherParent(hit) ==
    [SpanID |-> AsString(HitValue(hit, "span_id")),
     SpanName |-> AsString(HitValue(hit, "operation_name")),
     SpanKind |-> AsString(HitValue(hit, "span_kind")),
     StartTime |-> AsInt64(HitValue(hit, "start_time")),
     EndTime |-> AsInt64(HitValue(hit, "end_time")),
     DurationNs |-> AsInt64(HitValue(hit, "duration")),
     ParentSpanID |-> AsString(HitValue(hit, "parent_span_id"))]

parseSpanEntry(hit) ==
    [SpanID |-> AsString(HitValue(hit, "span_id")),
     SpanName |-> AsString(HitValue(hit, "operation_name")),
     SpanKind |-> AsString(HitValue(hit, "span_kind")),
     StartTime |-> AsInt64(HitValue(hit, "start_time")),
     EndTime |-> AsInt64(HitValue(hit, "end_time")),
     DurationNs |-> AsInt64(HitValue(hit, "duration")),
     ParentSpanID |-> AsString(HitValue(hit, "reference_parent_span_id"))]

GetSpans(params, stream, reply) ==
    LET query == generateSpansListQuery(params, stream)
    IN  IF ~query.ok
        THEN Fail(Errorf("failed to generate spans query: ", <<query.error>>), <<>>)
        ELSE LET resp == TracingExecuteSearchQuery(query.doc, reply)
             IN  IF ~resp.ok THEN resp
                 ELSE Done([Spans |-> [i \in 1..Len(resp.value.hits) |->
                                         parseSpanEntry(resp.value.hits[i])],
                            Total |-> resp.value.total,
                            TookMs |-> resp.value.took],
                           resp.sent)

internalFields ==
    {"_timestamp", "span_id", "operation_name", "span_kind", "start_time",
     "end_time", "duration", "parent_span_id", "reference_parent_span_id",
     "trace_id"}

\* The characters of the keys of the hits.
Spelling ==
    [span_id |-> <<"s", "p", "a", "n", "_", "i", "d">>,
     trace_id |-> <<"t", "r", "a", "c", "e", "_", "i", "d">>,
     duration |-> <<"d", "u", "r", "a", "t", "i", "o", "n">>,
     service_name |-> <<"s", "e", "r", "v", "i", "c", "e", "_", "n", "a", "m", "e">>,
     http_method |-> <<"h", "t", "t", "p", "_", "m", "e", "t", "h", "o", "d">>,
     http_status |-> <<"h", "t", "t", "p", "_", "s", "t", "a", "t", "u", "s">>,
     resource_host |-> <<"r", "e", "s", "o", "u", "r", "c", "e", "_", "h", "o", "s", "t">>,
     services |-> <<"s", "e", "r", "v", "i", "c", "e", "s">>,
     Service |-> <<"S", "e", "r", "v", "i", "c", "e">>,
     my_service |-> <<"m", "y", "_", "s", "e", "r", "v", "i", "c", "e">>,
     resourc |-> <<"r", "e", "s", "o", "u", "r", "c">>,
     http_url |-> <<"h", "t", "t", "p", "_", "u", "r", "l">>]

\* len(s) >= len(prefix) && s[:len(prefix)] == prefix
HasPrefix(s, prefix) == Len(s) >= Len(prefix) /\ SubSeq(s, 1, Len(prefix)) = prefix

\* A variant that knows the prefix "service" only.
IsResourceKeyServiceOnly(key) ==
    HasPrefix(Spelling[key], <<"s", "e", "r", "v", "i", "c", "e">>)

\* strings.HasPrefix(key, "service") || strings.HasPrefix(key, "resource")
IsResourceKey(key) ==
    \/ HasPrefix(Spelling[key], <<"s", "e", "r", "v", "i", "c", "e">>)
    \/ HasPrefix(Spelling[key], <<"r", "e", "s", "o", "u", "r", "c", "e">>)

\* A JSON null: the key is present and its value is nil.
Null == [t |-> "null", s |-> "", n |-> 0]

\* fmt.Sprintf("%v", value)
FormatValue(v) ==
    CASE v.t = "string" -> v.s
      [] v.t = "number" -> ToString(v.n)
      [] OTHER -> "<nil>"

\* The keys a hit holds a value for.
Keys(hit) == {k \in DOMAIN hit : hit[k].t # "absent"}

RECURSIVE CollectAttributes(_, _, _)
CollectAttributes(hit, order, resource) ==
    IF order = <<>> THEN <<>>
    ELSE LET key == Head(order)
             rest == CollectAttributes(hit, Tail(order), resource)
         IN  IF key \in internalFields \/ IsResourceKey(key) # resource THEN rest
             ELSE <<[Key |-> key, Value |-> FormatValue(hit[key])]>> \o rest

\* order is the order in which the range over the map visits the keys.
parseSpanDetail(hit, order) ==
    [SpanID |-> AsString(HitValue(hit, "span_id")),
     SpanName |-> AsString(HitValue(hit, "operation_name")),
     SpanKind |-> AsString(HitValue(hit, "span_kind")),
     StartTime |-> AsInt64(HitValue(hit, "start_time")),
     EndTime |-> AsInt64(HitValue(hit, "end_time")),
     DurationNs |-> AsInt64(HitValue(hit, "duration")),
     ParentSpanID |-> AsString(HitValue(hit, "reference_parent_span_id")),
     Attributes |-> CollectAttributes(hit, order, FALSE),
     ResourceAttributes |-> CollectAttributes(hit, order, TRUE)]

\* The orders in which a range over the keys of a hit may visit them.
RECURSIVE Orders(_)
Orders(keys) ==
    IF keys = {} THEN {<<>>}
    ELSE UNION {{<<k>> \o o : o \in Orders(keys \ {k})} : k \in keys}
KeyOrders(hit) == Orders(Keys(hit))

GetSpanDetail(params, stream, reply, order) ==
    LET query == generateSpanDetailQuery(params, stream)
    IN  IF ~query.ok
        THEN Fail(Errorf("failed to generate span detail query: ", <<query.error>>), <<>>)
        ELSE LET resp == TracingExecuteSearchQuery(query.doc, reply)
             IN  IF ~resp.ok THEN resp
                 ELSE IF Len(resp.value.hits) = 0
                 THEN Fail(<<"span not found: traceId=">> \o params.TraceID
                               \o <<", spanId=">> \o params.SpanID, resp.sent)
                 ELSE Done([Span |-> parseSpanDetail(resp.value.hits[1], order)],
                           resp.sent)

\* ------------------------------------------------------------------------
\* Backend replies: bounded sets
\* ------------------------------------------------------------------------
\* Largest number of alerts in the backend's list.
MaxAlerts == 2

\* Bodies of error responses; they differ in their bytes only.
ErrorTexts == {"index missing", "internal stack trace"}

\* A reply no call accepts.
FailureReplies ==
    {TransportFailure, Unreadable(StatusOK), Unreadable(InternalServerError)}
    \cup {Http(st, Body(t, Nil)) : st \in {StatusNotFound, InternalServerError},
                                   t \in ErrorTexts}

SearchResult(hits) == [took |-> 3, total |-> Len(hits), hits |-> hits]

LogHit ==
    ("_timestamp" :> Num(5)) @@ ("log" :> Str("started")) @@ ("logLevel" :> Str("INFO"))
    @@ ("kubernetes_pod_name" :> Str("pod-1"))
LogHitMistyped == ("_timestamp" :> Str("5")) @@ ("log" :> Num(1))

LogsSearchReplies ==
    FailureReplies
    \cup {Http(StatusOK, Body("not json", Nil)),
          Http(StatusCreated, Body("{}", Ptr(SearchResult(<<>>))))}
    \cup {Http(StatusOK, Body("{...}", Ptr(SearchResult(h)))) :
            h \in {<<>>, <<LogHit>>, <<LogHit, LogHitMistyped>>}}

SpanHit ==
    [trace_id |-> Str("T1"), span_id |-> Str("A"), operation_name |-> Str("opA"),
     span_kind |-> Str("SERVER"), start_time |-> Num(1), end_time |-> Num(3),
     duration |-> Num(2), reference_parent_span_id |-> Str(""),
     service_name |-> Str("svc"), http_method |-> Str("GET")]
SpanHitMistyped ==
    [trace_id |-> Str("T1"), span_id |-> Num(7), operation_name |-> Absent,
     span_kind |-> Absent, start_time |-> Str("1"), end_time |-> Absent,
     reference_parent_span_id |-> Str("A"), resource_host |-> Num(9)]

\* A hit of a span detail query (SELECT *), with attribute columns.
DetailHit ==
    [span_id |-> Str("A"), service_name |-> Str("svc"), http_method |-> Str("GET"),
     http_status |-> Num(200)]
DetailHitResource ==
    [trace_id |-> Str("T1"), resource_host |-> Num(9), services |-> Str("two"),
     Service |-> Str("capital")]
DetailHitNearMiss ==
    [duration |-> Num(2), my_service |-> Str("inner"), resourc |-> Str("short"),
     http_url |-> Null]

DetailSearchReplies ==
    FailureReplies
    \cup {Http(StatusOK, Body("not json", Nil)),
          Http(StatusCreated, Body("{}", Ptr(SearchResult(<<>>))))}
    \cup {Http(StatusOK, Body("{...}", Ptr(SearchResult(h)))) :
            h \in {<<>>, <<DetailHit>>, <<DetailHitResource>>, <<DetailHitNearMiss>>,
                   <<DetailHitNearMiss, DetailHit>>}}

TracesSearchReplies ==
    FailureReplies
    \cup {Http(StatusOK, Body("not json", Nil)),
          Http(StatusCreated, Body("{}", Ptr(SearchResult(<<>>))))}
    \cup {Http(StatusOK, Body("{...}", Ptr(SearchResult(h)))) :
            h \in {<<>>, <<SpanHit>>, <<SpanHitMistyped, SpanHit>>}}

CreateReplies ==
    FailureReplies
    \cup {Http(st, Body(b[1], b[2])) :
            st \in {StatusOK, StatusCreated, StatusNoContent},
            b \in {<<"not json", Nil>>, <<"{}", Ptr([alert_id |-> ""])>>,
                   <<"{id}", Ptr([alert_id |-> "x1"])>>}}

AlertNames == {"foo", "bar"}
ListedAlerts ==
    {[alert_id |-> "x1", name |-> "foo"], [alert_id |-> "x2", name |-> "foo"],
     [alert_id |-> "x3", name |-> "baz"]}
AlertLists == SeqsUpTo(MaxAlerts, ListedAlerts)

ListReplies ==
    FailureReplies
    \cup {Http(StatusOK, Body("not json", Nil)),
          Http(StatusCreated, Body("{}", Ptr([list |-> <<>>])))}
    \cup {Http(StatusOK, Body("{list}", Ptr([list |-> l]))) : l \in AlertLists}

DeleteReplies ==
    FailureReplies
    \cup {Http(st, Body("", Nil)) : st \in {StatusOK, StatusCreated, StatusNoContent}}

\* ------------------------------------------------------------------------
\* Request handlers (logs handlers.go, tracing handlers.go)
\* ------------------------------------------------------------------------
Deref(ptr, zero) == IF ptr # Nil THEN ptr[1] ELSE zero

RECURSIVE TrimLeft(_)
TrimLeft(s) == IF s # <<>> /\ Head(s) = SP THEN TrimLeft(Tail(s)) ELSE s
RECURSIVE TrimRight(_)
TrimRight(s) ==
    IF s # <<>> /\ s[Len(s)] = SP THEN TrimRight(SubSeq(s, 1, Len(s) - 1)) ELSE s
\* strings.TrimSpace
TrimSpace(s) == TrimRight(TrimLeft(s))

\* The union decoders of the generated API package read the raw scope object
\* into the fields of one variant; each may fail on a value of the wrong type.
AsWorkflowSearchScope(raw) ==
    [err |-> raw.workflowUndecodable,
     scope |-> [Namespace |-> raw.namespace, WorkflowRunName |-> raw.workflowRunName]]
AsComponentSearchScope(raw) ==
    [err |-> raw.componentUndecodable,
     scope |-> [Namespace |-> raw.namespace, ProjectUid |-> raw.projectUid,
                EnvironmentUid |-> raw.environmentUid,
                ComponentUid |-> raw.componentUid]]

toWorkflowLogsParams(req, scope) ==
    [Namespace |-> scope.Namespace,
     WorkflowRunName |-> Deref(scope.WorkflowRunName, <<>>),
     StartTime |-> req.StartTime, EndTime |-> req.EndTime,
     Limit |-> Deref(req.Limit, 0),
     SortOrder |-> Deref(req.SortOrder, <<>>),
     SearchPhrase |-> Deref(req.SearchPhrase, <<>>),
     LogLevels |-> Deref(req.LogLevels, <<>>)]

toComponentLogsParams(req, scope) ==
    [Namespace |-> scope.Namespace,
     ProjectID |-> Deref(scope.ProjectUid, <<>>),
     EnvironmentID |-> Deref(scope.EnvironmentUid, <<>>),
     ComponentIDs |-> IF scope.ComponentUid # Nil THEN <<scope.ComponentUid[1]>> ELSE <<>>,
     StartTime |-> req.StartTime, EndTime |-> req.EndTime,
     Limit |-> Deref(req.Limit, 0),
     SortOrder |-> Deref(req.SortOrder, <<>>),
     SearchPhrase |-> Deref(req.SearchPhrase, <<>>),
     LogLevels |-> Deref(req.LogLevels, <<>>)]

toTracesQueryParams(req) ==
    [StartTime |-> req.StartTime, EndTime |-> req.EndTime,
     Limit |-> Deref(req.Limit, 0),
     Sort |-> Deref(req.Sort, <<>>),
     Scope |-> [Namespace |-> req.SearchScope.Namespace,
                ProjectID |-> Deref(req.SearchScope.Project, <<>>),
                ComponentID |-> Deref(req.SearchScope.Component, <<>>),
                EnvironmentID |-> Deref(req.SearchScope.Environment, <<>>)],
     TraceID |-> <<>>, SpanID |-> <<>>]

\* The documents handed to the backend by the requests of a call.
Payloads(sent) == [i \in 1..Len(sent) |-> sent[i].payload]

\* A response of a handler: its status, the client call behind it, the
\* documents compiled and the requests sent for it, the message of an error
\* response (err.Error()) and the result of a success response.
Response(status, client, result) ==
    [status |-> status, client |-> client, compiled |-> Payloads(result.sent),
     message |-> result.err, sent |-> result.sent, value |-> result.value]

\* A 400 response returned before any client call.
Rejected(message) == Response(BadRequest, "none", Fail(<<message>>, <<>>))

\* if err != nil { return ...500JSONResponse{Message: ptr(err.Error())} }
Answer(client, result) ==
    Response(IF result.ok THEN StatusOK ELSE InternalServerError, client, result)

QueryLogs(body, stream, reply) ==
    IF body = Nil THEN Rejected("request body is required")
    ELSE
    LET req == body[1]
        wf == AsWorkflowSearchScope(req.SearchScope)
        cs == AsComponentSearchScope(req.SearchScope)
    IN  IF ~wf.err /\ wf.scope.WorkflowRunName # Nil
             /\ TrimSpace(wf.scope.WorkflowRunName[1]) # <<>>
        THEN IF TrimSpace(wf.scope.Namespace) = <<>>
             THEN Rejected("searchScope with a valid namespace is required")
             ELSE Answer("GetWorkflowLogs",
                         GetWorkflowLogs(toWorkflowLogsParams(req, wf.scope),
                                         stream, reply))
        ELSE IF cs.err \/ TrimSpace(cs.scope.Namespace) = <<>>
             THEN Rejected("searchScope with a valid namespace is required")
             ELSE Answer("GetComponentLogs",
                         GetComponentLogs(toComponentLogsParams(req, cs.scope),
                                          stream, reply))

\* uuid.UUID.String() and string(enum) are kept as the text of the value.
toLogAlertParams(req) ==
    LET meta == req.Metadata
        cond == req.Condition
    IN  [Name |-> IF meta # Nil THEN meta[1].Name ELSE Nil,
         Namespace |-> IF meta # Nil THEN Deref(meta[1].Namespace, <<>>) ELSE <<>>,
         ProjectUID |-> IF meta # Nil THEN Deref(meta[1].ProjectUid, <<>>) ELSE <<>>,
         EnvironmentUID |-> IF meta # Nil THEN Deref(meta[1].EnvironmentUid, <<>>) ELSE <<>>,
         ComponentUID |-> IF meta # Nil THEN Deref(meta[1].ComponentUid, <<>>) ELSE <<>>,
         SearchPattern |-> IF req.Source # Nil THEN Deref(req.Source[1].Query, <<>>) ELSE <<>>,
         Operator |-> IF cond # Nil THEN Deref(cond[1].Operator, "") ELSE "",
         ThresholdValue |-> IF cond # Nil THEN Deref(cond[1].Threshold, 0) ELSE 0,
         Window |-> IF cond # Nil THEN Deref(cond[1].Window, "") ELSE "",
         Interval |-> IF cond # Nil THEN Deref(cond[1].Interval, "") ELSE ""]

\* LastSyncedAt, the wall clock at the time of the response, is left out.
CreateAlertRule(body, stream, reply) ==
    IF body = Nil THEN Rejected("request body is required")
    ELSE LET params == toLogAlertParams(body[1])
             result == CreateAlert(params, stream, reply)
         IN  IF ~result.ok THEN Answer("CreateAlert", result)
             ELSE Response(StatusOK, "CreateAlert",
                           Done([Action |-> "created", Status |-> "synced",
                                 RuleLogicalId |-> params.Name,
                                 RuleBackendId |-> result.value], result.sent))

DeleteAlertRule(ruleName, listReply, deleteReply) ==
    LET result == DeleteAlert(ruleName, listReply, deleteReply)
    IN  IF ~result.ok THEN Answer("DeleteAlert", result)
        ELSE Response(StatusOK, "DeleteAlert",
                      Done([Action |-> "deleted", Status |-> "synced",
                            RuleLogicalId |-> ruleName,
                            RuleBackendId |-> result.value], result.sent))

QueryTraces(body, stream, reply) ==
    Answer("GetTraces", GetTraces(toTracesQueryParams(body[1]), stream, reply))

QuerySpansForTrace(body, traceId, stream, reply) ==
    Answer("GetSpans",
           GetSpans([toTracesQueryParams(body[1]) EXCEPT !.TraceID = traceId],
                    stream, reply))

\* params := openobserve.TracesQueryParams{TraceID: ..., SpanID: ...}
GetSpanDetailsForTrace(traceId, spanId, stream, reply, order) ==
    Answer("GetSpanDetail",
           GetSpanDetail([StartTime |-> 0, EndTime |-> 0, Limit |-> 0, Sort |-> <<>>,
                          Scope |-> [Namespace |-> <<>>, ProjectID |-> <<>>,
                                     ComponentID |-> <<>>, EnvironmentID |-> <<>>],
                          TraceID |-> traceId, SpanID |-> spanId],
                         stream, reply, order))

Namespaces == {<<>>, <<SP>>, <<SP, SP>>, <<"n">>, <<SP, "n">>}

RawScopes ==
    [namespace : Namespaces,
     workflowRunName : {Nil, Ptr(<<>>), Ptr(<<SP>>), Ptr(<<"w">>)},
     projectUid : {Nil, Ptr(<<"p">>)},
     environmentUid : {Nil},
     componentUid : {Nil, Ptr(<<"c">>)},
     workflowUndecodable : BOOLEAN,
     componentUndecodable : BOOLEAN]

LogsBodies ==
    {Nil} \cup
    {Ptr(r) : r \in [SearchScope : RawScopes, StartTime : {1}, EndTime : {2},
                     Limit : {Nil, Ptr(25)}, SortOrder : {Nil},
                     SearchPhrase : {Nil, Ptr(<<SQ>>)}, LogLevels : {Nil}]}

TracesBodies ==
    {Ptr(r) : r \in [SearchScope : [Namespace : Namespaces,
                                    Project : {Nil, Ptr(<<"p">>)},
                                    Component : {Nil, Ptr(<<"c">>)},
                                    Environment : {Nil}],
                     StartTime : {1}, EndTime : {2},
                     Limit : {Nil, Ptr(25)}, Sort : {Nil, Ptr(AscLower)}]}

TraceIds == {<<>>, Plain, <<SQ>>}

SpansBodies ==
    {Ptr(r) : r \in [SearchScope : [Namespace : {<<>>, <<"n">>}, Project : {Nil},
                                    Component : {Nil}, Environment : {Nil}],
                     StartTime : {1}, EndTime : {2},
                     Limit : {Nil, Ptr(25)}, Sort : {Nil, Ptr(AscLower)}]}

AlertBodies ==
    {Nil} \cup
    {Ptr(r) : r \in
       [Metadata : {Nil} \cup
                   {Ptr(m) : m \in [Name : {Ptr(<<"r">>)}, Namespace : {Nil, Ptr(Plain)},
                                    ProjectUid : {Nil}, EnvironmentUid : {Nil},
                                    ComponentUid : {Nil}]},
        Source : {Nil, Ptr([Query |-> Ptr(<<SQ>>)])},
        Condition : {Nil} \cup
                    {Ptr(c) : c \in [Operator : {Nil} \cup {Ptr(o) : o \in Operators},
                                     Threshold : {Ptr(5)}, Window : {Ptr("5m")},
                                     Interval : {Ptr("1m")}]}]}

\* The orders in which the first hit of a reply may be ranged over.
HitOrders(reply) ==
    IF reply.body.decoded # Nil /\ Len(reply.body.decoded[1].hits) > 0
    THEN KeyOrders(reply.body.decoded[1].hits[1]) ELSE {<<>>}

ClientComponentParams ==
    [Namespace : {<<>>, Plain}, ProjectID : {<<>>}, EnvironmentID : {<<>>},
     ComponentIDs : {<<>>, <<Plain>>}, SearchPhrase : {<<>>, <<SQ>>},
     LogLevels : {<<>>}, StartTime : {1}, EndTime : {2}, Limit : {0, 25},
     SortOrder : {<<>>}]

ClientWorkflowParams ==
    [Namespace : {<<>>, Plain}, WorkflowRunName : {<<>>, Plain},
     SearchPhrase : {<<>>, <<SQ>>}, LogLevels : {<<>>},
     StartTime : {1}, EndTime : {2}, Limit : {0, 25}, SortOrder : {<<>>}]

ClientAlertParams ==
    [Name : {Nil, Ptr(<<"r">>)}, Namespace : {Plain}, ProjectUID : {<<>>},
     EnvironmentUID : {<<>>}, ComponentUID : {<<>>},
     SearchPattern : {Plain, <<SQ>>}, Operator : Operators,
     ThresholdValue : {5}, Window : {"5m"}, Interval : {"1m"}]

ClientTraceParams ==
    [StartTime : {1}, EndTime : {2}, Limit : {0, 25}, Sort : {<<>>, AscLower},
     Scope : PlainScopes, TraceID : {<<>>, Plain}, SpanID : {<<>>, Plain}]

\* ------------------------------------------------------------------------
\* Operations: one compile or one call per behaviour
\* ------------------------------------------------------------------------
Idle == op = "idle" /\ arg = <<>> /\ ret = <<>>

EscapeSQLString(s) ==
    /\ op = "idle"
    /\ op' = "escapeSQLString"
    /\ arg' = s
    /\ ret' = escapeSQLString(s)

NextEscape == \E s \in EscapeInputs : EscapeSQLString(s)

SpecEscape == Idle /\ [][NextEscape]_vars

GenerateComponentLogsQuery ==
    /\ op = "idle"
    /\ \E p \in ComponentLogsInputs, s \in Streams :
           /\ op' = "generateComponentLogsQuery"
           /\ arg' = [params |-> p, stream |-> s]
           /\ ret' = generateComponentLogsQuery(p, s)

GenerateWorkflowLogsQuery ==
    /\ op = "idle"
    /\ \E p \in WorkflowLogsInputs, s \in Streams :
           /\ op' = "generateWorkflowLogsQuery"
           /\ arg' = [params |-> p, stream |-> s]
           /\ ret' = generateWorkflowLogsQuery(p, s)

GenerateTracesListQuery ==
    /\ op = "idle"
    /\ \E p \in TracesListInputs, s \in Streams :
           /\ op' = "generateTracesListQuery"
           /\ arg' = [params |-> p, stream |-> s]
           /\ ret' = generateTracesListQuery(p, s)

GenerateSpansListQuery ==
    /\ op = "idle"
    /\ \E p \in SpansListInputs, s \in Streams :
           /\ op' = "generateSpansListQuery"
           /\ arg' = [params |-> p, stream |-> s]
           /\ ret' = generateSpansListQuery(p, s)

GenerateSpanDetailQuery ==
    /\ op = "idle"
    /\ \E p \in SpanDetailInputs, s \in Streams :
           /\ op' = "generateSpanDetailQuery"
           /\ arg' = [params |-> p, stream |-> s]
           /\ ret' = generateSpanDetailQuery(p, s)

GenerateAlertConfig ==
    /\ op = "idle"
    /\ \E p \in AlertInputs, s \in Streams :
           /\ op' = "generateAlertConfig"
           /\ arg' = [params |-> p, stream |-> s]
           /\ ret' = generateAlertConfig(p, s)

Next ==
    \/ GenerateComponentLogsQuery
    \/ GenerateWorkflowLogsQuery
    \/ GenerateTracesListQuery
    \/ GenerateSpansListQuery
    \/ GenerateSpanDetailQuery
    \/ GenerateAlertConfig

Spec == Idle /\ [][Next]_vars

\* The grouping pass of GetTraces over the hits of a decoded backend response.
GetTracesGrouping ==
    /\ op = "idle"
    /\ \E rows \in RowKinds, k \in 0..MaxRows, took \in {3} : \E hits \in [1..k -> rows] :
           /\ op' = "GetTraces"
           /\ arg' = [hits |-> hits, took |-> took]
           /\ ret' = Ok(GroupTraces(hits, took))

NextTrace == GetTracesGrouping

HandleQueryLogs ==
    /\ op = "idle"
    /\ \E body \in LogsBodies, s \in Streams, reply \in LogsSearchReplies :
           /\ op' = "QueryLogs"
           /\ arg' = [body |-> body, stream |-> s, reply |-> reply]
           /\ ret' = QueryLogs(body, s, reply)

HandleCreateAlertRule ==
    /\ op = "idle"
    /\ \E body \in AlertBodies, s \in Streams, reply \in CreateReplies :
           /\ op' = "CreateAlertRule"
           /\ arg' = [body |-> body, stream |-> s, reply |-> reply]
           /\ ret' = CreateAlertRule(body, s, reply)

HandleDeleteAlertRule ==
    /\ op = "idle"
    /\ \E name \in AlertNames, listReply \in ListReplies, deleteReply \in DeleteReplies :
           /\ op' = "DeleteAlertRule"
           /\ arg' = [ruleName |-> name, listReply |-> listReply,
                      deleteReply |-> deleteReply]
           /\ ret' = DeleteAlertRule(name, listReply, deleteReply)

HandleQueryTraces ==
    /\ op = "idle"
    /\ \E body \in TracesBodies, s \in Streams, reply \in TracesSearchReplies :
           /\ op' = "QueryTraces"
           /\ arg' = [body |-> body, stream |-> s, reply |-> reply]
           /\ ret' = QueryTraces(body, s, reply)

HandleQuerySpansForTrace ==
    /\ op = "idle"
    /\ \E body \in SpansBodies, traceId \in TraceIds, s \in Streams,
          reply \in TracesSearchReplies :
           /\ op' = "QuerySpansForTrace"
           /\ arg' = [body |-> body, traceId |-> traceId, stream |-> s, reply |-> reply]
           /\ ret' = QuerySpansForTrace(body, traceId, s, reply)

HandleGetSpanDetailsForTrace ==
    /\ op = "idle"
    /\ \E traceId \in TraceIds, spanId \in TraceIds, s \in Streams,
          reply \in DetailSearchReplies :
         \E order \in HitOrders(reply) :
           /\ op' = "GetSpanDetailsForTrace"
           /\ arg' = [traceId |-> traceId, spanId |-> spanId, stream |-> s,
                      reply |-> reply, order |-> order]
           /\ ret' = GetSpanDetailsForTrace(traceId, spanId, s, reply, order)

NextHandler ==
    \/ HandleQueryLogs
    \/ HandleCreateAlertRule
    \/ HandleDeleteAlertRule
    \/ HandleQueryTraces
    \/ HandleQuerySpansForTrace
    \/ HandleGetSpanDetailsForTrace

SpecHandler == Idle /\ [][NextHandler]_vars

\* The calls of the two clients, each with the backend's replies to it.
CallGetComponentLogs ==
    /\ op = "idle"
    /\ \E p \in ClientComponentParams, s \in Streams, reply \in LogsSearchReplies :
           /\ op' = "GetComponentLogs"
           /\ arg' = [params |-> p, stream |-> s, reply |-> reply]
           /\ ret' = GetComponentLogs(p, s, reply)

CallGetWorkflowLogs ==
    /\ op = "idle"
    /\ \E p \in ClientWorkflowParams, s \in Streams, reply \in LogsSearchReplies :
           /\ op' = "GetWorkflowLogs"
           /\ arg' = [params |-> p, stream |-> s, reply |-> reply]
           /\ ret' = GetWorkflowLogs(p, s, reply)

CallCreateAlert ==
    /\ op = "idle"
    /\ \E p \in ClientAlertParams, s \in Streams, reply \in CreateReplies :
           /\ op' = "CreateAlert"
           /\ arg' = [params |-> p, stream |-> s, reply |-> reply]
           /\ ret' = CreateAlert(p, s, reply)

CallGetAlertIDByName ==
    /\ op = "idle"
    /\ \E name \in AlertNames, reply \in ListReplies :
           /\ op' = "getAlertIDByName"
           /\ arg' = [name |-> name, reply |-> reply]
           /\ ret' = getAlertIDByName(name, reply)

CallDeleteAlert ==
    /\ op = "idle"
    /\ \E name \in AlertNames, listReply \in ListReplies, deleteReply \in DeleteReplies :
           /\ op' = "DeleteAlert"
           /\ arg' = [alertName |-> name, listReply |-> listReply,
                      deleteReply |-> deleteReply]
           /\ ret' = DeleteAlert(name, listReply, deleteReply)

CallGetTraces ==
    /\ op = "idle"
    /\ \E p \in ClientTraceParams, s \in Streams, reply \in TracesSearchReplies :
           /\ op' = "GetTraces"
           /\ arg' = [params |-> p, stream |-> s, reply |-> reply]
           /\ ret' = GetTraces(p, s, reply)

CallGetSpans ==
    /\ op = "idle"
    /\ \E p \in ClientTraceParams, s \in Streams, reply \in TracesSearchReplies :
           /\ op' = "GetSpans"
           /\ arg' = [params |-> p, stream |-> s, reply |-> reply]
           /\ ret' = GetSpans(p, s, reply)

CallGetSpanDetail ==
    /\ op = "idle"
    /\ \E p \in ClientTraceParams, s \in Streams, reply \in DetailSearchReplies :
         \E order \in HitOrders(reply) :
           /\ op' = "GetSpanDetail"
           /\ arg' = [params |-> p, stream |-> s, reply |-> reply, order |-> order]
           /\ ret' = GetSpanDetail(p, s, reply, order)

NextClient ==
    \/ CallGetComponentLogs
    \/ CallGetWorkflowLogs
    \/ CallCreateAlert
    \/ CallGetAlertIDByName
    \/ CallDeleteAlert
    \/ CallGetTraces
    \/ CallGetSpans
    \/ CallGetSpanDetail

SpecClient == Idle /\ [][NextClient]_vars

SpecTrace == Idle /\ [][NextTrace]_vars

\* ------------------------------------------------------------------------
\* Reference readers used by the properties
\* ------------------------------------------------------------------------
\* The literal un-escaper: two backslashes give one, two quotes give one.
RECURSIVE Unescape(_)
Unescape(t) ==
    IF t = <<>> THEN <<>>
    ELSE IF Len(t) >= 2 /\ t[1] = t[2] /\ t[1] \in {BS, SQ}
         THEN <<t[1]>> \o Unescape(SubSeq(t, 3, Len(t)))
         ELSE <<t[1]>> \o Unescape(Tail(t))

Doubled(c) == IF c \in {BS, SQ} THEN <<c, c>> ELSE <<c>>

\* A reader of query text: outside a literal a quote opens one; inside, a
\* backslash takes the next chunk verbatim, two quotes are one quote and a
\* single quote closes the literal.  It returns the text outside the literals
\* (each literal replaced by a marker), the decoded literals in order, and
\* whether the text ends inside a literal.
LiteralMark == "<literal>"

RECURSIVE LexOut(_, _, _, _), LexIn(_, _, _, _, _)
LexOut(t, i, skel, lits) ==
    IF i > Len(t) THEN [skel |-> skel, lits |-> lits, open |-> FALSE]
    ELSE IF t[i] = SQ THEN LexIn(t, i + 1, Append(skel, LiteralMark), lits, <<>>)
    ELSE LexOut(t, i + 1, Append(skel, t[i]), lits)
LexIn(t, i, skel, lits, cur) ==
    IF i > Len(t) THEN [skel |-> skel, lits |-> Append(lits, cur), open |-> TRUE]
    ELSE IF t[i] = BS /\ i < Len(t) THEN LexIn(t, i + 2, skel, lits, Append(cur, t[i + 1]))
    ELSE IF t[i] = SQ /\ i < Len(t) /\ t[i + 1] = SQ
         THEN LexIn(t, i + 2, skel, lits, Append(cur, SQ))
    ELSE IF t[i] = SQ THEN LexOut(t, i + 1, skel, Append(lits, cur))
    ELSE LexIn(t, i + 1, skel, lits, Append(cur, t[i]))

Lex(t) == LexOut(t, 1, <<>>, <<>>)

NonEmpty(v) == IF v # <<>> THEN <<v>> ELSE <<>>
Wrapped(v) == IF v # <<>> THEN <<<<PCT>> \o v \o <<PCT>>>> ELSE <<>>

\* The caller-supplied values a query carries, in the order of its predicates.
CallerValues(name, p) ==
    CASE name = "generateComponentLogsQuery" ->
           <<p.Namespace>> \o NonEmpty(p.ProjectID) \o NonEmpty(p.EnvironmentID)
             \o p.ComponentIDs \o Wrapped(p.SearchPhrase) \o p.LogLevels
      [] name = "generateWorkflowLogsQuery" ->
           (IF p.Namespace # <<>> THEN <<<<"openchoreo-ci-">> \o p.Namespace>> ELSE <<>>)
             \o NonEmpty(p.WorkflowRunName) \o Wrapped(p.SearchPhrase) \o p.LogLevels
      [] name = "generateTracesListQuery" ->
           NonEmpty(p.Scope.Namespace) \o NonEmpty(p.Scope.ProjectID)
             \o NonEmpty(p.Scope.EnvironmentID) \o NonEmpty(p.Scope.ComponentID)
      [] name = "generateSpansListQuery" -> <<p.TraceID>>
      [] name = "generateSpanDetailQuery" -> <<p.TraceID, p.SpanID>>
      [] name = "generateAlertConfig" -> <<p.SearchPattern>>

Compile(name, p, s) ==
    CASE name = "generateComponentLogsQuery" -> generateComponentLogsQuery(p, s)
      [] name = "generateWorkflowLogsQuery" -> generateWorkflowLogsQuery(p, s)
      [] name = "generateTracesListQuery" -> generateTracesListQuery(p, s)
      [] name = "generateSpansListQuery" -> generateSpansListQuery(p, s)
      [] name = "generateSpanDetailQuery" -> generateSpanDetailQuery(p, s)
      [] name = "generateAlertConfig" -> generateAlertConfig(p, s)

\* The same request with every populated value replaced by a value that holds
\* no quote and no backslash.
Tame(v) == IF v = <<>> THEN <<>> ELSE Plain
TameAll(vs) == [i \in 1..Len(vs) |-> Plain]
TameParams(name, p) ==
    CASE name = "generateComponentLogsQuery" ->
           [p EXCEPT !.Namespace = Tame(@), !.ProjectID = Tame(@),
                     !.EnvironmentID = Tame(@), !.ComponentIDs = TameAll(@),
                     !.SearchPhrase = Tame(@), !.LogLevels = TameAll(@)]
      [] name = "generateWorkflowLogsQuery" ->
           [p EXCEPT !.Namespace = Tame(@), !.WorkflowRunName = Tame(@),
                     !.SearchPhrase = Tame(@), !.LogLevels = TameAll(@)]
      [] name = "generateAlertConfig" -> [p EXCEPT !.SearchPattern = Plain]
      [] OTHER ->
           [p EXCEPT !.Scope = [Namespace |-> Tame(@.Namespace),
                                ProjectID |-> Tame(@.ProjectID),
                                ComponentID |-> Tame(@.ComponentID),
                                EnvironmentID |-> Tame(@.EnvironmentID)],
                     !.TraceID = Plain, !.SpanID = Plain]

QueryOps == {"generateComponentLogsQuery", "generateWorkflowLogsQuery",
             "generateTracesListQuery", "generateSpansListQuery",
             "generateSpanDetailQuery"}
CompileOps == QueryOps \cup {"generateAlertConfig"}
ListOps == QueryOps \ {"generateSpanDetailQuery"}

LowerChar(c) ==
    CASE c = "A" -> "a" [] c = "S" -> "s" [] c = "C" -> "c"
      [] c = "D" -> "d" [] c = "E" -> "e" [] OTHER -> c
ToLower(s) == [i \in 1..Len(s) |-> LowerChar(s[i])]

SortOf(name, p) == IF name \in {"generateTracesListQuery", "generateSpansListQuery"}
                   THEN p.Sort ELSE p.SortOrder
NamespaceOf(name, p) == IF name = "generateTracesListQuery"
                        THEN p.Scope.Namespace ELSE p.Namespace

AscClauses == {" ORDER BY _timestamp ASC", " ORDER BY start_time ASC"}
DescClauses == {" ORDER BY _timestamp DESC", " ORDER BY start_time DESC"}
OrderClauses == AscClauses \cup DescClauses \cup {" ORDER BY start_time"}

LastChunk(sql) == sql[Len(sql)]

\* ------------------------------------------------------------------------
\* Properties
\* ------------------------------------------------------------------------

\* C1: escapeSQLString(s) is s with every backslash doubled and every single
\* quote doubled, the reference un-escaper gives s back from it, and the input
\* a'b\c gives a''b\\c.
C1_EscapeRoundTrip ==
    op = "escapeSQLString" =>
        /\ ret = Concat([i \in 1..Len(arg) |-> Doubled(arg[i])])
        /\ Unescape(ret) = arg
        /\ arg = ExampleLiteral => ret = <<"a", SQ, SQ, "b", BS, BS, "c">>

C1_Witness ==
    /\ op = "escapeSQLString"
    /\ arg = ExampleLiteral
    /\ ret = <<"a", SQ, SQ, "b", BS, BS, "c">>

\* C2: in every compiled query text each caller-supplied value is read back
\* whole as one literal: the text does not end inside a literal, its literals
\* are exactly the caller's values in predicate order, and the text outside
\* the literals is that of the same request with harmless values.
C2_ValuesStayInsideLiterals ==
    (op \in CompileOps /\ ret.ok) =>
        LET read == Lex(ret.doc.sql)
            tame == Lex(Compile(op, TameParams(op, arg.params), arg.stream).doc.sql)
        IN  /\ ~read.open
            /\ read.lits = CallerValues(op, arg.params)
            /\ read.skel = tame.skel

C2_Witness ==
    /\ op = "generateComponentLogsQuery"
    /\ ret.ok
    /\ arg.params.SearchPhrase = <<SQ>>
    /\ arg.params.Namespace = <<SQ>>
    /\ Len(Lex(ret.doc.sql).lits) = 2

\* C3: a component-log query or a component-scoped trace-listing query with
\* an empty namespace fails with a validation error and yields no document.
C3_EmptyNamespaceRejected ==
    (op \in {"generateComponentLogsQuery", "generateTracesListQuery"}
       /\ NamespaceOf(op, arg.params) = <<>>) =>
        (~ret.ok /\ ret.kind = "validation")

\* C5: component-log, workflow-log and span-list queries have size = limit for
\* limit > 0 and 100 otherwise; the trace listing has size -1, the span detail
\* size 1; size -1 occurs in no other query; from is always 0.
C5_SizeAndOffset ==
    (op \in QueryOps /\ ret.ok) =>
        /\ ret.doc.from = 0
        /\ op \in {"generateComponentLogsQuery", "generateWorkflowLogsQuery",
                   "generateSpansListQuery"} =>
              ret.doc.size = (IF arg.params.Limit > 0 THEN arg.params.Limit ELSE 100)
        /\ op = "generateTracesListQuery" => ret.doc.size = -1
        /\ op = "generateSpanDetailQuery" => ret.doc.size = 1
        /\ ret.doc.size = -1 => op = "generateTracesListQuery"

C5_Witness ==
    /\ op = "generateComponentLogsQuery"
    /\ ret.ok
    /\ arg.params.Limit = -5
    /\ ret.doc.size = 100

\* C6: every list query ends with one of the static ordering clauses, and for
\* any sortOrder that is not a spelling of asc the clause is descending.
C6_OrderClauseFromSortOrder ==
    (op \in ListOps /\ ret.ok) =>
        /\ LastChunk(ret.doc.sql) \in OrderClauses
        /\ ToLower(SortOf(op, arg.params)) # AscLower =>
              LastChunk(ret.doc.sql) \in DescClauses

\* C7: in the log queries and the span-list query every casing of asc gives
\* an ascending clause and every casing of desc a descending one.
C7_SortOrderCaseInsensitive ==
    (op \in {"generateComponentLogsQuery", "generateWorkflowLogsQuery",
             "generateSpansListQuery"} /\ ret.ok) =>
        /\ ToLower(SortOf(op, arg.params)) = AscLower =>
              LastChunk(ret.doc.sql) \in AscClauses
        /\ ToLower(SortOf(op, arg.params)) = <<"d", "e", "s", "c">> =>
              LastChunk(ret.doc.sql) \in DescClauses

\* Reading of a batch of rows, independent of the grouping loop.
RowHasTrace(hits, i) == IsString(hits[i].trace_id) /\ hits[i].trace_id.s # ""
RowsOf(hits, traceID) ==
    {i \in 1..Len(hits) : RowHasTrace(hits, i) /\ hits[i].trace_id.s = traceID}
\* The rows at which a trace id appears for the first time.
FirstRows(hits) ==
    {i \in 1..Len(hits) :
       RowHasTrace(hits, i) /\ i = CHOOSE m \in RowsOf(hits, hits[i].trace_id.s) :
                                     \A j \in RowsOf(hits, hits[i].trace_id.s) : m <= j}
\* The k-th smallest element of a set of numbers.
Kth(S, k) == CHOOSE i \in S : Cardinality({j \in S : j < i}) = k - 1
SetMin(S) == CHOOSE m \in S : \A x \in S : m <= x
SetMax(S) == CHOOSE m \in S : \A x \in S : m >= x
RECURSIVE SumCounts(_)
SumCounts(traces) ==
    IF traces = <<>> THEN 0 ELSE Head(traces).SpanCount + SumCounts(Tail(traces))

ExampleRows ==
    <<Row(Str("T1"), "A", Str(""), Num(1), Num(2)),
      Row(Str("T1"), "B", Str("A"), Num(1), Num(2))>>
TwoRootRows ==
    <<Row(Str("T1"), "A", Str(""), Num(1), Num(2)),
      Row(Str("T1"), "B", Str(""), Num(1), Num(2))>>

\* C8: the grouping pass emits one summary per distinct non-empty trace id, in
\* the order of first appearance; each spanCount is the number of rows with
\* that trace id; rows without a string trace id count nowhere; the example
\* rows give one summary T1 with spanCount 2 and root A.
C8_OneSummaryPerTraceInFirstSeenOrder ==
    op = "GetTraces" =>
        LET hits == arg.hits
            out == ret.doc.Traces
            first == FirstRows(hits)
        IN  /\ Len(out) = Cardinality(first)
            /\ ret.doc.Total = Len(out)
            /\ \A k \in 1..Len(out) :
                 /\ out[k].TraceID = hits[Kth(first, k)].trace_id.s
                 /\ out[k].SpanCount = Cardinality(RowsOf(hits, out[k].TraceID))
            /\ SumCounts(out) = Cardinality({i \in 1..Len(hits) : RowHasTrace(hits, i)})
            /\ hits = ExampleRows =>
                 /\ Len(out) = 1
                 /\ out[1].TraceID = "T1" /\ out[1].SpanCount = 2
                 /\ out[1].RootSpanID = "A"

C8_Witness ==
    /\ op = "GetTraces"
    /\ Len(arg.hits) = 3
    /\ arg.hits[1].trace_id = Str("T2")
    /\ arg.hits[2].trace_id = Absent
    /\ arg.hits[3].trace_id = Str("T1")
    /\ Len(ret.doc.Traces) = 2
    /\ ret.doc.Traces[1].TraceID = "T2"

\* C9: for every summary whose rows all carry numeric times, startTime is the
\* least start_time and endTime the greatest end_time of the rows of its
\* trace, and durationNs = endTime - startTime.
C9_TimeBoundsAreMinAndMax ==
    op = "GetTraces" =>
        \A k \in 1..Len(ret.doc.Traces) :
            LET e == ret.doc.Traces[k]
                rows == RowsOf(arg.hits, e.TraceID)
            IN  (\A i \in rows : IsNumber(arg.hits[i].start_time)
                                   /\ IsNumber(arg.hits[i].end_time)) =>
                  /\ e.StartTime = SetMin({arg.hits[i].start_time.n : i \in rows})
                  /\ e.EndTime = SetMax({arg.hits[i].end_time.n : i \in rows})
                  /\ e.DurationNs = e.EndTime - e.StartTime

\* C10: with span_id, operation_name and span_kind strings in every row, the
\* root fields of a summary are those of the last row of its trace whose
\* parent reference is empty (absent counts as empty), or are empty when the
\* trace has no such row; traceName is rootSpanName.
C10_LastRootWins ==
    (op = "GetTraces"
       /\ \A i \in 1..Len(arg.hits) :
            IsString(arg.hits[i].span_id) /\ IsString(arg.hits[i].operation_name)
              /\ IsString(arg.hits[i].span_kind)) =>
        \A k \in 1..Len(ret.doc.Traces) :
            LET e == ret.doc.Traces[k]
                roots == {i \in RowsOf(arg.hits, e.TraceID) :
                            ~IsString(arg.hits[i].reference_parent_span_id)
                              \/ arg.hits[i].reference_parent_span_id.s = ""}
            IN  /\ e.TraceName = e.RootSpanName
                /\ roots = {} =>
                     e.RootSpanID = "" /\ e.RootSpanName = "" /\ e.RootSpanKind = ""
                /\ roots # {} =>
                     LET r == arg.hits[SetMax(roots)]
                     IN  /\ e.RootSpanID = r.span_id.s
                         /\ e.RootSpanName = r.operation_name.s
                         /\ e.RootSpanKind = r.span_kind.s

C10_Witness ==
    /\ op = "GetTraces"
    /\ arg.hits = TwoRootRows
    /\ Len(ret.doc.Traces) = 1
    /\ ret.doc.Traces[1].RootSpanID = "B"
    /\ ret.doc.Traces[1].TraceName = "opB"

\* C4: a request whose scope namespace is empty or only whitespace is answered
\* with a bad-request response and no query is compiled for it, for log
\* queries and for trace queries.
C4_BlankScopeRejectedBeforeCompile ==
    /\ (op = "QueryLogs" /\ arg.body # Nil
          /\ TrimSpace(arg.body[1].SearchScope.namespace) = <<>>) =>
           (ret.status = BadRequest /\ ret.compiled = <<>>)
    /\ (op = "QueryTraces"
          /\ TrimSpace(arg.body[1].SearchScope.Namespace) = <<>>) =>
           (ret.status = BadRequest /\ ret.compiled = <<>>)


\* ------------------------------------------------------------------------
\* Alert operators
\* ------------------------------------------------------------------------
\* The operator table of the alert rule API.
OperatorSymbols ==
    [gt |-> ">", gte |-> ">=", lt |-> "<", lte |-> "<=", eq |-> "=", neq |-> "!="]

\* C11: mapOperator maps gt, gte, lt, lte, eq, neq to >, >=, <, <=, =, != and
\* fails for every other string; generateAlertConfig then fails with that
\* error and returns no alert document, and otherwise carries the mapped
\* symbol in the condition of the document.
C11_OperatorMapping ==
    /\ \A o \in Operators :
          IF o \in DOMAIN OperatorSymbols
          THEN mapOperator(o) = Ok(OperatorSymbols[o])
          ELSE ~mapOperator(o).ok /\ mapOperator(o).kind = "validation"
    /\ op = "generateAlertConfig" =>
          IF arg.params.Operator \in DOMAIN OperatorSymbols
          THEN /\ ret.ok
               /\ ret.doc.condition.operator = OperatorSymbols[arg.params.Operator]
          ELSE /\ ~ret.ok
               /\ ret.kind = "validation"
               /\ "doc" \notin DOMAIN ret

\* An alert rule with the operator "between" was compiled and refused.
C11_Witness ==
    /\ op = "generateAlertConfig"
    /\ arg.params.Operator = "between"
    /\ ~ret.ok

\* ------------------------------------------------------------------------
\* Alert lookup
\* ------------------------------------------------------------------------
\* The list call succeeded: a 200 response whose body decodes.
Listed(reply) ==
    reply.kind = "http" /\ reply.status = StatusOK /\ reply.body.decoded # Nil

\* The positions of the listed alerts with the given name.
Matches(reply, name) ==
    {i \in 1..Len(reply.body.decoded[1].list) :
       reply.body.decoded[1].list[i].name = name}

OneFoo == Http(StatusOK, Body("{list}", Ptr([list |-> <<[alert_id |-> "x1", name |-> "foo"]>>])))

\* C12: getAlertIDByName returns the alert_id of the first listed alert whose
\* name equals the given name, and fails with the not-found error exactly
\* when the list call succeeded and no listed alert has that name; over the
\* list [{x1, foo}] it resolves foo to x1 and fails not-found for bar.
C12_ResolveIdByName ==
    /\ getAlertIDByName("foo", OneFoo).ok
    /\ getAlertIDByName("foo", OneFoo).value = "x1"
    /\ getAlertIDByName("bar", OneFoo).err = AlertNotFound("bar")
    /\ op = "getAlertIDByName" =>
          /\ (~ret.ok /\ ret.err = AlertNotFound(arg.name))
                <=> (Listed(arg.reply) /\ Matches(arg.reply, arg.name) = {})
          /\ ret.ok <=> (Listed(arg.reply) /\ Matches(arg.reply, arg.name) # {})
          /\ ret.ok =>
                ret.value = arg.reply.body.decoded[1].list[
                                SetMin(Matches(arg.reply, arg.name))].alert_id

\* Two listed alerts are named foo and the lookup of foo returned the first.
C12_Witness ==
    /\ op = "getAlertIDByName"
    /\ arg.name = "foo"
    /\ Listed(arg.reply)
    /\ arg.reply.body.decoded[1].list =
          <<[alert_id |-> "x2", name |-> "foo"], [alert_id |-> "x1", name |-> "foo"]>>
    /\ ret.ok /\ ret.value = "x2"

\* ------------------------------------------------------------------------
\* Error handling of the inbound operations
\* ------------------------------------------------------------------------
HandlerOps ==
    {"QueryLogs", "CreateAlertRule", "DeleteAlertRule", "QueryTraces",
     "QuerySpansForTrace", "GetSpanDetailsForTrace"}

\* The messages of the errors raised by the checks of the request.
ValidationMessages ==
    {"request body is required", "searchScope with a valid namespace is required",
     "invalid alert operator", "namespace is required for component log queries"}

\* The response reports a failed check of the request.
EndsInValidationError(r) ==
    r.message # <<>> /\ r.message[Len(r.message)] \in ValidationMessages

\* C13: when an inbound operation ends in a validation error, no request has
\* been sent to the backend during the operation.
C13_ValidationBeforeNetwork ==
    op \in HandlerOps /\ (ret.status = BadRequest \/ EndsInValidationError(ret))
        => ret.sent = <<>>

\* An alert rule with the operator "between" ended in the operator error.
C13_Witness ==
    /\ op = "CreateAlertRule"
    /\ arg.body # Nil
    /\ toLogAlertParams(arg.body[1]).Operator = "between"
    /\ EndsInValidationError(ret)
    /\ ret.sent = <<>>

\* C14: every validation error is answered with a bad-request response and
\* never with an internal-server-error response; every error of a call that
\* reached the backend is answered with an internal-server-error response.
C14_ValidationIsCallerFault ==
    op \in HandlerOps =>
        /\ EndsInValidationError(ret) => ret.status = BadRequest
        /\ (ret.message # <<>> /\ ret.sent # <<>>) => ret.status = InternalServerError

\* ------------------------------------------------------------------------
\* Errors for non-success statuses
\* ------------------------------------------------------------------------
NonSuccess(reply) ==
    reply.kind = "http" /\ reply.status \in {StatusNotFound, InternalServerError}

\* The same response with other bytes in its body.
WithText(reply, text) == Http(reply.status, Body(text, reply.body.decoded))

\* The call of a state, made again with another reply of the backend.
Replay(o, a, reply) ==
    CASE o = "GetComponentLogs" -> GetComponentLogs(a.params, a.stream, reply)
      [] o = "GetWorkflowLogs" -> GetWorkflowLogs(a.params, a.stream, reply)
      [] o = "CreateAlert" -> CreateAlert(a.params, a.stream, reply)
      [] o = "getAlertIDByName" -> getAlertIDByName(a.name, reply)
      [] o = "GetTraces" -> GetTraces(a.params, a.stream, reply)
      [] o = "GetSpans" -> GetSpans(a.params, a.stream, reply)
      [] o = "GetSpanDetail" -> GetSpanDetail(a.params, a.stream, reply, a.order)

SingleReplyOps ==
    {"GetComponentLogs", "GetWorkflowLogs", "CreateAlert", "getAlertIDByName",
     "GetTraces", "GetSpans", "GetSpanDetail"}

CarriesStatus(err, status) == \E i \in DOMAIN err : err[i] = ToString(status)

\* C15: when the backend answers a request with a non-success status, the
\* call returns an error that carries the status code and is the same for
\* any two responses of that status with different bodies, for the search
\* calls of both clients and the alert create, list and delete calls.
C15_StatusErrorsOmitBody ==
    /\ op \in SingleReplyOps /\ ret.sent # <<>> /\ NonSuccess(arg.reply) =>
          /\ ~ret.ok
          /\ CarriesStatus(ret.err, arg.reply.status)
          /\ \A t \in ErrorTexts : Replay(op, arg, WithText(arg.reply, t)).err = ret.err
    /\ op = "DeleteAlert" /\ NonSuccess(arg.listReply) =>
          /\ ~ret.ok
          /\ CarriesStatus(ret.err, arg.listReply.status)
          /\ \A t \in ErrorTexts :
                DeleteAlert(arg.alertName, WithText(arg.listReply, t),
                            arg.deleteReply).err = ret.err
    /\ op = "DeleteAlert" /\ Len(ret.sent) = 2 /\ NonSuccess(arg.deleteReply) =>
          /\ ~ret.ok
          /\ CarriesStatus(ret.err, arg.deleteReply.status)
          /\ \A t \in ErrorTexts :
                DeleteAlert(arg.alertName, arg.listReply,
                            WithText(arg.deleteReply, t)).err = ret.err

\* C16: deleting an alert whose name matches no listed alert is answered
\* with a response whose status differs from the status of the response to
\* a failed lookup or delete call.
C16_NotFoundIsDistinct ==
    op = "DeleteAlertRule" /\ Listed(arg.listReply)
        /\ Matches(arg.listReply, arg.ruleName) = {}
        => \A r \in FailureReplies :
              ret.status # DeleteAlertRule(arg.ruleName, r, arg.deleteReply).status

\* ------------------------------------------------------------------------
\* Scope dispatch
\* ------------------------------------------------------------------------
Populated(ptr) == ptr # Nil /\ TrimSpace(ptr[1]) # <<>>

\* More than one scope variant is populated.
AmbiguousScope(sc) ==
    /\ Populated(sc.workflowRunName)
    /\ Populated(sc.projectUid) \/ Populated(sc.environmentUid) \/ Populated(sc.componentUid)

\* C17: a log query whose scope populates more than one variant, or none
\* that can be read, is rejected with a bad-request response and no call is
\* made for it.
C17_ExactlyOneScopeVariant ==
    (/\ op = "QueryLogs"
     /\ arg.body # Nil
     /\ \/ AmbiguousScope(arg.body[1].SearchScope)
        \/ /\ arg.body[1].SearchScope.workflowUndecodable
           /\ arg.body[1].SearchScope.componentUndecodable)
        => (ret.status = BadRequest /\ ret.sent = <<>>)

\* ------------------------------------------------------------------------
\* Stream names
\* ------------------------------------------------------------------------
Occurs(q, t) == \E i \in 1..(Len(t) - Len(q) + 1) : SubSeq(t, i, i + Len(q) - 1) = q

\* C18: every query builder places the stream name into the query text as
\* quoteIdentifier returns it, wrapped in double quotes with every embedded
\* double quote doubled.
C18_StreamNameIsQuoted ==
    op \in QueryOps /\ ret.ok => Occurs(quoteIdentifier(arg.stream), ret.doc.sql)

\* ------------------------------------------------------------------------
\* Requests of a call
\* ------------------------------------------------------------------------
\* The backend did not serve the request: no response, an unreadable one,
\* or a non-success status.
BackendFailed(reply) == reply.kind # "http" \/ NonSuccess(reply)

\* C19: DeleteAlert sends the DELETE request only after the list request
\* came back with success and a listed alert matched the name, to the path
\* of the id of the first match; when the lookup fails (no response, an
\* unreadable or undecodable one, a non-success status, no match) it sends
\* no DELETE request and returns an error; the list request always goes
\* first.
C19_DeleteOnlyAfterLookup ==
    op = "DeleteAlert" =>
        IF Listed(arg.listReply) /\ Matches(arg.listReply, arg.alertName) # {}
        THEN ret.sent =
               <<Request("GET", AlertsURL, Nil),
                 Request("DELETE",
                         AlertURL(arg.listReply.body.decoded[1].list[
                                    SetMin(Matches(arg.listReply, arg.alertName))].alert_id),
                         Nil)>>
        ELSE /\ ret.sent = <<Request("GET", AlertsURL, Nil)>>
             /\ ~ret.ok

\* The alert foo was looked up among two alerts, found second, and deleted.
C19_Witness ==
    /\ op = "DeleteAlert"
    /\ arg.alertName = "foo"
    /\ Listed(arg.listReply)
    /\ arg.listReply.body.decoded[1].list =
          <<[alert_id |-> "x3", name |-> "baz"], [alert_id |-> "x1", name |-> "foo"]>>
    /\ Len(ret.sent) = 2
    /\ ret.sent[2].url = AlertURL("x1")
    /\ ret.ok /\ ret.value = "x1"

\* The builder behind a call of a client returned a document.
Compiled(o, a) ==
    CASE o = "GetComponentLogs" -> generateComponentLogsQuery(a.params, a.stream).ok
      [] o = "GetWorkflowLogs" -> generateWorkflowLogsQuery(a.params, a.stream).ok
      [] o = "CreateAlert" -> generateAlertConfig(a.params, a.stream).ok
      [] o = "GetTraces" -> generateTracesListQuery(a.params, a.stream).ok
      [] o = "GetSpans" -> generateSpansListQuery(a.params, a.stream).ok
      [] o = "GetSpanDetail" -> generateSpanDetailQuery(a.params, a.stream).ok

CompilingOps == SingleReplyOps \ {"getAlertIDByName"}

SuccessStatuses(o) ==
    IF o = "CreateAlert" THEN {StatusOK, StatusCreated} ELSE {StatusOK}

\* The backend answered with success and a body that does not decode.
Undecodable(o, reply) ==
    reply.kind = "http" /\ reply.status \in SuccessStatuses(o) /\ reply.body.decoded = Nil

\* C21: a call whose request the backend answers with a success status and
\* a body that does not decode returns an error, for the search calls, the
\* alert listing and the alert creation.
C21_UndecodableIsAnError ==
    /\ op \in SingleReplyOps /\ ret.sent # <<>> /\ Undecodable(op, arg.reply) => ~ret.ok
    /\ op = "DeleteAlert" /\ Undecodable("getAlertIDByName", arg.listReply) => ~ret.ok

\* ------------------------------------------------------------------------
\* Normalizers
\* ------------------------------------------------------------------------
\* The column behind each text field of a component log entry.
LogColumns ==
    [Log |-> "log", LogLevel |-> "logLevel",
     ComponentUID |-> "kubernetes_labels_openchoreo_dev_component_uid",
     ComponentName |-> "kubernetes_labels_openchoreo_dev_component_name",
     EnvironmentUID |-> "kubernetes_labels_openchoreo_dev_environment_uid",
     EnvironmentName |-> "kubernetes_labels_openchoreo_dev_environment_name",
     ProjectUID |-> "kubernetes_labels_openchoreo_dev_project_uid",
     ProjectName |-> "kubernetes_labels_openchoreo_dev_project_name",
     Namespace |-> "kubernetes_labels_openchoreo_dev_namespace",
     PodName |-> "kubernetes_pod_name",
     PodNamespace |-> "kubernetes_pod_namespace",
     ContainerName |-> "kubernetes_container_name"]

\* The columns behind the text fields and the number fields of a span entry.
SpanTextColumns ==
    [SpanID |-> "span_id", SpanName |-> "operation_name", SpanKind |-> "span_kind",
     ParentSpanID |-> "reference_parent_span_id"]
SpanNumberColumns ==
    [StartTime |-> "start_time", EndTime |-> "end_time", DurationNs |-> "duration"]

\* The value of a column when it is present as text, else the empty string.
TextOf(hit, column) ==
    IF column \in DOMAIN hit /\ hit[column].t = "string" THEN hit[column].s ELSE ""

\* The value of a column when it is present as a number, else zero.
NumberOf(hit, column) ==
    IF column \in DOMAIN hit /\ hit[column].t = "number" THEN hit[column].n ELSE 0

HitsOf(reply) == reply.body.decoded[1].hits

ResourcePrefixed == {"service_name", "services", "resource_host"}

KeysIn(attrs) == {attrs[i].Key : i \in DOMAIN attrs}
Times(attrs, key) == Cardinality({i \in DOMAIN attrs : attrs[i].Key = key})

\* C23: parseSpanDetail partitions the columns of the hit: every key outside
\* the reserved list appears exactly once, in resourceAttributes if and only
\* if it begins with "service" or "resource" and in attributes otherwise; no
\* reserved key appears in either list; the sizes of the two lists sum to
\* the number of non-reserved keys; each value is the string rendering of
\* the hit's value.
C23_AttributesPartitionColumns ==
    op = "GetSpanDetail" /\ ret.ok =>
        LET hit == HitsOf(arg.reply)[1]
            free == Keys(hit) \ internalFields
            plain == ret.value.Span.Attributes
            resource == ret.value.Span.ResourceAttributes
        IN  /\ KeysIn(plain) = free \ ResourcePrefixed
            /\ KeysIn(resource) = free \cap ResourcePrefixed
            /\ \A k \in free : Times(plain, k) + Times(resource, k) = 1
            /\ Len(plain) + Len(resource) = Cardinality(free)
            /\ \A i \in DOMAIN plain : plain[i].Value = FormatValue(hit[plain[i].Key])
            /\ \A i \in DOMAIN resource :
                  resource[i].Value = FormatValue(hit[resource[i].Key])

\* A hit with the keys resource_host, services and Service was split into
\* two resource attributes and one attribute.
C23_Witness ==
    /\ op = "GetSpanDetail"
    /\ ret.ok
    /\ KeysIn(ret.value.Span.ResourceAttributes) = {"resource_host", "services"}
    /\ KeysIn(ret.value.Span.Attributes) = {"Service"}
    /\ \E i \in DOMAIN ret.value.Span.ResourceAttributes :
          ret.value.Span.ResourceAttributes[i] = [Key |-> "resource_host", Value |-> "9"]

\* ------------------------------------------------------------------------
\* Point lookups
\* ------------------------------------------------------------------------
PredicateColumns ==
    {"trace_id", "span_id", "service_openchoreo_dev_namespace",
     "service_openchoreo_dev_project_uid", "service_openchoreo_dev_environment_uid",
     "service_openchoreo_dev_component_uid"}

IsPredicateColumn(chunk) == chunk \in PredicateColumns

\* The columns the predicates of a query text test, in order.
TestedColumns(sql) == SelectSeq(sql, IsPredicateColumn)

LookupOps == {"generateSpansListQuery", "generateSpanDetailQuery"}

\* C24: the span-list query holds only the trace_id predicate and the
\* span-detail query only the trace_id and span_id predicates, so the query
\* is the same for any two requests that agree on traceId, spanId and sort
\* and differ in namespace, project, environment or component.
C24_PointLookupsIgnoreScope ==
    op \in LookupOps =>
        /\ ret.ok
        /\ TestedColumns(ret.doc.sql) =
              (IF op = "generateSpansListQuery" THEN <<"trace_id">>
               ELSE <<"trace_id", "span_id">>)
        /\ \A scope \in Scopes :
              Compile(op, [arg.params EXCEPT !.Scope = scope], arg.stream) = ret

\* A span-list query and a span-detail query were compiled for a request
\* whose scope names a namespace and a component.
C24_Witness ==
    /\ op \in LookupOps
    /\ arg.params.Scope.Namespace = Plain
    /\ arg.params.Scope.ComponentID = Plain
    /\ arg.params.TraceID = Plain
    /\ ret.ok
    /\ Len(TestedColumns(ret.doc.sql)) \in {1, 2}

\* ------------------------------------------------------------------------
\* Filter clauses
\* ------------------------------------------------------------------------
\* The shape of a predicate once every literal is replaced by the marker.
EqualityShape(column) == <<column, " = ", LiteralMark>>
PhraseShape == <<"log LIKE ", LiteralMark>>
GroupShape(column, n) ==
    <<"(">> \o Join([i \in 1..n |-> EqualityShape(column)], <<" OR ">>) \o <<")">>

\* One shape per populated filter: scope identifiers, search phrase, levels.
FilterShapes(name, p) ==
    CASE name = "generateComponentLogsQuery" ->
           <<EqualityShape("kubernetes_labels_openchoreo_dev_namespace")>>
           \o Cond(p.ProjectID # <<>>,
                   EqualityShape("kubernetes_labels_openchoreo_dev_project_uid"))
           \o Cond(p.EnvironmentID # <<>>,
                   EqualityShape("kubernetes_labels_openchoreo_dev_environment_uid"))
           \o Cond(p.ComponentIDs # <<>>,
                   GroupShape("kubernetes_labels_openchoreo_dev_component_uid",
                              Len(p.ComponentIDs)))
           \o Cond(p.SearchPhrase # <<>>, PhraseShape)
           \o Cond(p.LogLevels # <<>>, GroupShape("logLevel", Len(p.LogLevels)))
      [] name = "generateWorkflowLogsQuery" ->
           Cond(p.Namespace # <<>>, EqualityShape("kubernetes_namespace_name"))
           \o Cond(p.WorkflowRunName # <<>>,
                   EqualityShape("kubernetes_labels_workflows_argoproj_io_workflow"))
           \o Cond(p.SearchPhrase # <<>>, PhraseShape)
           \o Cond(p.LogLevels # <<>>, GroupShape("logLevel", Len(p.LogLevels)))
      [] name = "generateTracesListQuery" ->
           Cond(p.Scope.Namespace # <<>>,
                EqualityShape("service_openchoreo_dev_namespace"))
           \o Cond(p.Scope.ProjectID # <<>>,
                   EqualityShape("service_openchoreo_dev_project_uid"))
           \o Cond(p.Scope.EnvironmentID # <<>>,
                   EqualityShape("service_openchoreo_dev_environment_uid"))
           \o Cond(p.Scope.ComponentID # <<>>,
                   EqualityShape("service_openchoreo_dev_component_uid"))

\* The filter clause of a query text: from its WHERE keyword up to the
\* ORDER BY clause, or nothing when it has no WHERE keyword.
FilterClause(skel) ==
    LET at == {i \in DOMAIN skel : skel[i] = " WHERE "}
    IN  IF at = {} THEN <<>> ELSE SubSeq(skel, SetMin(at), Len(skel) - 1)

FilteredListOps == {"generateComponentLogsQuery", "generateWorkflowLogsQuery",
                    "generateTracesListQuery"}

\* C25: in every list query the filter clause is the AND-conjunction of
\* exactly one predicate per populated filter, in the order scope
\* identifiers, search phrase, log levels; a non-empty list of log levels or
\* of component ids forms one parenthesised OR-group of equality predicates,
\* one per value in input order; an unpopulated filter adds no predicate;
\* with no populated filter the WHERE clause is absent.
C25_FilterClauseIsConjunction ==
    op \in FilteredListOps /\ ret.ok =>
        LET read == Lex(ret.doc.sql)
            shapes == FilterShapes(op, arg.params)
        IN  /\ ~read.open
            /\ FilterClause(read.skel) =
                  (IF shapes = <<>> THEN <<>>
                   ELSE <<" WHERE ">> \o Join(shapes, <<" AND ">>))
            /\ read.lits = CallerValues(op, arg.params)

\* A workflow query with all four filters and two levels, and a query with
\* no filter at all.
C25_Witness ==
    /\ op = "generateWorkflowLogsQuery"
    /\ arg.params.Namespace = Plain
    /\ arg.params.WorkflowRunName = Plain
    /\ arg.params.SearchPhrase # <<>>
    /\ Len(arg.params.LogLevels) = 2
    /\ ret.ok
    /\ Len(FilterClause(Lex(ret.doc.sql).skel)) = 21

C25_WitnessNoFilter ==
    /\ op \in FilteredListOps
    /\ ret.ok
    /\ FilterShapes(op, arg.params) = <<>>
    /\ FilterClause(Lex(ret.doc.sql).skel) = <<>>

\* ------------------------------------------------------------------------
\* Root fields and time bounds of a trace summary
\* ------------------------------------------------------------------------
\* The rows of a trace that name no parent.
RootRowsOf(hits, traceID) ==
    {i \in RowsOf(hits, traceID) : AsString(hits[i].reference_parent_span_id) = ""}

\* C26: in every emitted TraceSummary the three root fields rootSpanId,
\* rootSpanName and rootSpanKind all come from one and the same input row, or
\* are all empty, also when some empty-parent rows of the trace lack a string
\* span_id, operation_name or span_kind.
C26_RootFieldsFromOneRow ==
    op = "GetTraces" /\ ret.ok =>
        \A k \in DOMAIN ret.doc.Traces :
            LET t == ret.doc.Traces[k]
            IN  \/ t.RootSpanID = "" /\ t.RootSpanName = "" /\ t.RootSpanKind = ""
                \/ \E i \in RootRowsOf(arg.hits, t.TraceID) :
                      /\ t.RootSpanID = AsString(arg.hits[i].span_id)
                      /\ t.RootSpanName = AsString(arg.hits[i].operation_name)
                      /\ t.RootSpanKind = AsString(arg.hits[i].span_kind)

\* C27: every emitted TraceSummary has startTime <= endTime, that is
\* durationNs >= 0, for every set of rows, also when some or all rows lack a
\* numeric start_time or end_time.
C27_DurationIsNotNegative ==
    op = "GetTraces" /\ ret.ok =>
        \A k \in DOMAIN ret.doc.Traces :
            /\ ret.doc.Traces[k].StartTime <= ret.doc.Traces[k].EndTime
            /\ ret.doc.Traces[k].DurationNs >= 0

\* ------------------------------------------------------------------------
\* The search-phrase predicate
\* ------------------------------------------------------------------------
\* Longest log text the predicate is evaluated on.
MaxTextLen == 2

LogTexts == StringsUpTo(MaxTextLen, {"a", PCT, "_"})

\* LIKE of SQL: % stands for any run of characters, _ for any one character.
RECURSIVE LikeMatch(_, _)
LikeMatch(pattern, text) ==
    IF pattern = <<>> THEN text = <<>>
    ELSE IF Head(pattern) = PCT
         THEN LikeMatch(Tail(pattern), text)
              \/ (text # <<>> /\ LikeMatch(pattern, Tail(text)))
    ELSE /\ text # <<>>
         /\ (Head(pattern) = "_" \/ Head(pattern) = Head(text))
         /\ LikeMatch(Tail(pattern), Tail(text))

\* The literal of the LIKE predicate, as the backend reads it.
LikePattern(sql) ==
    LET read == Lex(sql)
        at == CHOOSE i \in DOMAIN read.skel : read.skel[i] = "log LIKE "
    IN  read.lits[Cardinality({j \in 1..(at + 1) : read.skel[j] = LiteralMark})]

PhraseOps == {"generateComponentLogsQuery", "generateWorkflowLogsQuery"}

\* C28: the search-phrase predicate is a literal substring match: for every
\* phrase, also one that holds the LIKE wildcard characters % or _, the
\* compiled predicate matches exactly the rows whose log text contains the
\* phrase as a contiguous substring.
C28_PhraseIsLiteralSubstring ==
    op \in PhraseOps /\ ret.ok /\ arg.params.SearchPhrase # <<>> =>
        \A text \in LogTexts :
            LikeMatch(LikePattern(ret.doc.sql), text)
                <=> Occurs(arg.params.SearchPhrase, text)

\* The same for the phrases that hold neither % nor _.
C28_PlainPhraseIsLiteralSubstring ==
    /\ op \in PhraseOps
    /\ ret.ok
    /\ arg.params.SearchPhrase # <<>>
    /\ \A i \in DOMAIN arg.params.SearchPhrase :
          arg.params.SearchPhrase[i] \notin {PCT, "_"}
    => \A text \in LogTexts :
           LikeMatch(LikePattern(ret.doc.sql), text)
               <=> Occurs(arg.params.SearchPhrase, text)

\* ------------------------------------------------------------------------
\* Scope fields of an alert rule
\* ------------------------------------------------------------------------
ScopeValues == {<<>>, Plain, <<SQ>>}

\* C29: the alert document of generateAlertConfig does not depend on the
\* rule's namespace, projectId, environmentId or componentId: two rules that
\* agree on name, search pattern, operator, threshold, window and interval
\* and differ only in those scope fields produce the same query and the same
\* document; the query counts the matching rows of the whole stream.
C29_AlertIgnoresScope ==
    op = "generateAlertConfig" =>
        /\ \A ns \in ScopeValues, project \in ScopeValues, environment \in ScopeValues,
              component \in ScopeValues :
              generateAlertConfig([arg.params EXCEPT !.Namespace = ns,
                                                     !.ProjectUID = project,
                                                     !.EnvironmentUID = environment,
                                                     !.ComponentUID = component],
                                  arg.stream) = ret
        /\ ret.ok =>
              /\ Lex(ret.doc.sql).lits = <<arg.params.SearchPattern>>
              /\ ~Occurs(<<" AND ">>, ret.doc.sql)

\* An alert document was compiled for a rule that names a namespace and a
\* component.
C29_Witness ==
    /\ op = "generateAlertConfig"
    /\ arg.params.Namespace = Plain
    /\ arg.params.ComponentUID = Plain
    /\ ret.ok
    /\ ret.doc.condition.operator = ">"

\* ------------------------------------------------------------------------
\* The alerts of the backend
\* ------------------------------------------------------------------------
\* The DELETE requests of a call.
Deletions(sent) == {i \in DOMAIN sent : sent[i].method = "DELETE"}

DistinctIds(alerts) ==
    \A i, j \in DOMAIN alerts : alerts[i].alert_id = alerts[j].alert_id => i = j

\* The alerts of the backend after a call: a DELETE request that the backend
\* answered with 200 or 204 removed the alert whose id its URL names.
AlertsAfter(alerts, sent, reply) ==
    IF Deletions(sent) # {} /\ reply.kind = "http"
       /\ reply.status \in {StatusOK, StatusNoContent}
    THEN LET Kept(a) == \A i \in Deletions(sent) : sent[i].url # AlertURL(a.alert_id)
         IN  SelectSeq(alerts, Kept)
    ELSE alerts

RemoveAt(seq, i) == SubSeq(seq, 1, i - 1) \o SubSeq(seq, i + 1, Len(seq))

\* C30: a successful DeleteAlert(name) removes exactly one backend alert, the
\* first in the backend's list order whose name equals name, and leaves every
\* other alert unchanged, also another alert with the same name; a
\* DeleteAlert whose lookup failed removes nothing; CreateAlert never checks
\* for an existing alert of the same name before creating.
C30_DeleteRemovesFirstMatchOnly ==
    /\ op = "DeleteAlert" /\ Listed(arg.listReply)
       /\ DistinctIds(arg.listReply.body.decoded[1].list) =>
          LET alerts == arg.listReply.body.decoded[1].list
              after == AlertsAfter(alerts, ret.sent, arg.deleteReply)
              found == Matches(arg.listReply, arg.alertName)
          IN  /\ ret.ok => found # {} /\ after = RemoveAt(alerts, SetMin(found))
              /\ found = {} => ~ret.ok /\ Deletions(ret.sent) = {} /\ after = alerts
    /\ op = "DeleteAlert" /\ ~Listed(arg.listReply) =>
          ~ret.ok /\ Deletions(ret.sent) = {}
    /\ op = "CreateAlert" =>
          /\ Len(ret.sent) <= 1
          /\ \A i \in DOMAIN ret.sent :
                ret.sent[i].method = "POST" /\ ret.sent[i].url = AlertsURL
          /\ generateAlertConfig(arg.params, arg.stream).ok => Len(ret.sent) = 1

\* Two alerts are named foo; the deletion of foo succeeded and left the
\* second one.
C30_Witness ==
    /\ op = "DeleteAlert"
    /\ arg.alertName = "foo"
    /\ Listed(arg.listReply)
    /\ arg.listReply.body.decoded[1].list =
          <<[alert_id |-> "x2", name |-> "foo"], [alert_id |-> "x1", name |-> "foo"]>>
    /\ arg.deleteReply = Http(StatusNoContent, Body("", Nil))
    /\ ret.ok
    /\ AlertsAfter(arg.listReply.body.decoded[1].list, ret.sent, arg.deleteReply) =
          <<[alert_id |-> "x1", name |-> "foo"]>>

====
